---- MODULE Spec2Model ----
(***************************************************************************)
(* State-machine model of the kasir-pos point-of-sale page                 *)
(* (src/unnamed/part_000, the application script): its object stores, the  *)
(* cashier's cart and checkout, the catalog forms, and backup and restore;  *)
(* and of its cache worker (src/paymnet/sw.js).                             *)
(*                                                                         *)
(* Conventions                                                             *)
(*  - An object store is a function from primary keys to records.          *)
(*  - JavaScript values whose type decides a comparison (index keys,       *)
(*    dates, option values) are records [type, v].                         *)
(*  - A number that may be NaN is <<>> (NaN) or <<n>>.                     *)
(*  - Money computed by the page is held in units of 1/Scale, so that a    *)
(*    percentage of a percentage stays an integer.                         *)
(*  - Every storage call of the page is asynchronous: the call and its     *)
(*    callback are separate steps wherever the page state can change in    *)
(*    between.                                                             *)
(***************************************************************************)
EXTENDS Integers, Sequences, FiniteSets, TLC

\* ------------------------------------------------------------------ bounds
\* Largest stock a product form is given.
MaxStock == 2
\* Number of products ever created (the products key generator's range).
MaxProducts == 2
\* Number of suppliers ever created.
MaxSuppliers == 1
\* Seconds the wall clock advances during a run.
MaxClock == 1
\* Checkouts accepted by processPayment during a run.
MaxTxns == 1
\* Asynchronous display refreshes requested by the user and not yet resolved.
MaxPending == 1
\* Clicks on process-payment before the callbacks of the first have run.
MaxClicks == 2
\* Fetch events the cache worker is handling at a time.
MaxRequests == 2

\* ------------------------------------------------------------------ values
Scale == 100 * 100

NaN == <<>>
Num(n) == <<n>>
IsNum(x) == x # NaN
Val(x) == x[1]

Null == [type |-> "Null", v |-> 0]
Number(n) == [type |-> "Number", v |-> n]
String(n) == [type |-> "String", v |-> n]
Date(n) == [type |-> "Date", v |-> n]

Empty == [k \in {} |-> 0]
\* A write that leaves the written record alone in the store (the variant C15
\* is tested against).
PutAlone(f, k, r) == [x \in {k} |-> r]

Put(f, k, r) == [x \in DOMAIN f \cup {k} |-> IF x = k THEN r ELSE f[x]]
Del(f, k) == [x \in DOMAIN f \ {k} |-> f[x]]

RECURSIVE SumSeq(_)
SumSeq(s) == IF s = <<>> THEN 0 ELSE Head(s) + SumSeq(Tail(s))

\* ------------------------------------------------------------------ state
VARIABLES
  products,      \* object store 'products'
  suppliers,     \* object store 'suppliers'
  transactions,  \* object store 'transactions'
  settings,      \* object store 'settings'
  nextKey,       \* key generator of each auto-increment store
  cart,          \* let cart = []
  cashier,       \* product objects captured by the rendered cashier list
  dom,           \* the form fields and text nodes the handlers read and write
  pendingFmt,    \* formatCurrency(total) calls of calculateTotal not yet resolved
  pendingTax,    \* getRecord(settings, 'taxRate') calls of toggleTax not yet resolved
  commits,       \* processPayment calls whose storage callbacks are outstanding
  pendingDel,    \* deleteSupplier calls whose index count is outstanding
  backup,        \* the downloaded backup file and the progress of a restore
  toast,         \* the last message shown to the user (showToast)
  formError,     \* the inline error elements showing since the form was opened
  clock,         \* wall clock, in seconds
  seeding,       \* loadDefaultSettings: the outstanding request of each default
  dashboard,     \* the dashboard page: what it shows and the requests it awaits
  audit,         \* observer: each completed checkout with the state before and after
  worker,        \* the cache worker: its lifecycle state, the deletes its activation
                 \* awaits and (observer) the caches it has deleted
  caches,        \* CacheStorage of the origin: cache name -> request URL -> response
  inflight,      \* fetch events the worker is handling
  served,        \* observer: the last response delivered to a page, and its source
  click          \* observer: the last click on a row button, with the calls the
                 \* delegated listener made for it

pageVars == <<products, suppliers, transactions, settings, nextKey, cart, cashier, dom,
              pendingFmt, pendingTax, commits, pendingDel, backup, toast, formError, clock,
              seeding, dashboard, audit, click>>

swVars == <<worker, caches, inflight, served>>

vars == <<pageVars, swVars, click>>

dbVars == <<products, suppliers, transactions, settings, nextKey>>

\* ------------------------------------------------------- storage adapter
\* An index that is not unique never rejects (the variant C8 is tested against).
NoClash(store, key, rec, field) == FALSE

\* A unique index already holds rec's value of field under another key.
UniqueClash(store, key, rec, field) ==
  \E k \in DOMAIN store : k # key /\ store[k][field] = rec[field]

\* store.add(record): rejected (ConstraintError) when the key exists or a unique
\* index of the store (uniq) already holds the record's value.
addRecord(store, key, rec, uniq) ==
  LET bad == key \in DOMAIN store \/ \E f \in uniq : UniqueClash(store, key, rec, f)
  IN  [ok |-> ~bad, store |-> IF bad THEN store ELSE Put(store, key, rec)]

\* store.get(key): the record, or undefined (<<>>).
getRecord(store, key) == IF key \in DOMAIN store THEN <<store[key]>> ELSE <<>>

\* A write by store.add, which an existing key rejects (the variant C22 is tested
\* against).
updateRecordByAdd(store, rec, uniq) == addRecord(store, rec.id, rec, uniq)

\* store.put(record): inserts or replaces the record under record.id; rejected
\* only by a unique index.
updateRecord(store, rec, uniq) ==
  LET bad == \E f \in uniq : UniqueClash(store, rec.id, rec, f)
  IN  [ok |-> ~bad, store |-> IF bad THEN store ELSE Put(store, rec.id, rec)]

\* store.delete(key)
deleteRecord(store, key) == Del(store, key)

\* The transactions store without a unique index (the variant C14 is tested
\* against).
NoTransactionIndexes == {}

\* The unique indexes openDatabase creates.
ProductIndexes == {"code"}
SupplierIndexes == {"code"}
TransactionIndexes == {"invoice"}

\* ------------------------------------------------------------------- cart
\* cart.find / cart.findIndex by product id: the first matching position, or 0.
Find(c, id) ==
  LET hits == {i \in 1..Len(c) : c[i].id = id}
  IN  IF hits = {} THEN 0 ELSE CHOOSE i \in hits : \A j \in hits : i <= j

RemoveAt(c, i) == [j \in 1..(Len(c) - 1) |-> IF j < i THEN c[j] ELSE c[j + 1]]

\* The result of a cart handler: the cart, the toast it shows ("" for none) and
\* whether it went on to updateCart().
CartResult(c, msg, upd) == [cart |-> c, toast |-> msg, updated |-> upd]

\* addToCart without the lookup of an existing line (the variant C29 is tested
\* against).
addToCartPush(c, product) ==
  IF product.stock > 0
  THEN CartResult(Append(c, [id |-> product.id, code |-> product.code,
                             name |-> product.name, price |-> product.price,
                             quantity |-> 1, stock |-> product.stock]),
                  "ditambahkan ke keranjang", TRUE)
  ELSE CartResult(c, "Stok produk habis", FALSE)

\* addToCart without its two stock checks (the variant C5 is tested against).
addToCartUnchecked(c, product) ==
  LET i == Find(c, product.id) IN
  IF i # 0
  THEN CartResult([c EXCEPT ![i].quantity = @ + 1], "Menambah jumlah di keranjang", TRUE)
  ELSE CartResult(Append(c, [id |-> product.id, code |-> product.code,
                             name |-> product.name, price |-> product.price,
                             quantity |-> 1, stock |-> product.stock]),
                  "ditambahkan ke keranjang", TRUE)

addToCart(c, product) ==
  LET i == Find(c, product.id) IN
  IF i # 0
  THEN IF c[i].quantity < product.stock
       THEN CartResult([c EXCEPT ![i].quantity = @ + 1], "Menambah jumlah di keranjang", TRUE)
       ELSE CartResult(c, "Stok produk tidak mencukupi", FALSE)
  ELSE IF product.stock > 0
       THEN CartResult(Append(c, [id |-> product.id, code |-> product.code,
                                  name |-> product.name, price |-> product.price,
                                  quantity |-> 1, stock |-> product.stock]),
                       "ditambahkan ke keranjang", TRUE)
       ELSE CartResult(c, "Stok produk habis", FALSE)

increaseQuantity(c, id) ==
  LET i == Find(c, id) IN
  IF i = 0 THEN CartResult(c, "", FALSE)
  ELSE IF c[i].quantity < c[i].stock
       THEN CartResult([c EXCEPT ![i].quantity = @ + 1], "", TRUE)
       ELSE CartResult(c, "Stok produk tidak mencukupi", FALSE)

decreaseQuantity(c, id) ==
  LET i == Find(c, id) IN
  IF i # 0 /\ c[i].quantity > 1
  THEN CartResult([c EXCEPT ![i].quantity = @ - 1], "", TRUE)
  ELSE CartResult(c, "", FALSE)

removeFromCart(c, id) ==
  LET i == Find(c, id) IN
  IF i # 0 THEN CartResult(RemoveAt(c, i), "dihapus dari keranjang", TRUE)
  ELSE CartResult(c, "", FALSE)

\* updateQuantity without the comparison with the line's stock (the variant C12
\* is tested against).
updateQuantityUnclamped(c, id, quantity) ==
  IF IsNum(quantity) /\ Val(quantity) < 1 THEN removeFromCart(c, id)
  ELSE LET i == Find(c, id) IN
       IF i = 0 \/ ~IsNum(quantity) THEN CartResult(c, "", FALSE)
       ELSE CartResult([c EXCEPT ![i].quantity = Val(quantity)], "", TRUE)

\* quantity is parseInt of the line's input: a number or NaN. Every comparison
\* with NaN is false.
updateQuantity(c, id, quantity) ==
  IF IsNum(quantity) /\ Val(quantity) < 1 THEN removeFromCart(c, id)
  ELSE LET i == Find(c, id) IN
       IF i = 0 THEN CartResult(c, "", FALSE)
       ELSE IF IsNum(quantity) /\ Val(quantity) <= c[i].stock
            THEN CartResult([c EXCEPT ![i].quantity = Val(quantity)], "", TRUE)
            ELSE CartResult([c EXCEPT ![i].quantity = c[i].stock],
                            "Stok produk tidak mencukupi", TRUE)

\* clearCart once the confirm dialog is accepted.
clearCart(c) ==
  IF Len(c) > 0 THEN CartResult(<<>>, "Keranjang dikosongkan", TRUE)
  ELSE CartResult(c, "", FALSE)

\* ----------------------------------------------------------------- totals
\* cart.reduce((sum, item) => sum + item.price * item.quantity, 0), in 1/Scale
Subtotal(c) == Scale * SumSeq([i \in 1..Len(c) |-> c[i].price * c[i].quantity])

\* JavaScript's  value > 0  on an input's value: '' is 0.
Positive(x) == IsNum(x) /\ Val(x) > 0

\* calculateTotal with the tax taken on the subtotal instead of the amount after
\* discount (the variant C6 is tested against).
calculateTotalTaxOnSubtotal(c, discountOn, discountValue, taxOn, taxValue) ==
  LET subtotal == Subtotal(c)
      discount == IF discountOn /\ Positive(discountValue)
                  THEN (subtotal \div 100) * Val(discountValue) ELSE 0
      tax == IF taxOn /\ Positive(taxValue)
             THEN (subtotal \div 100) * Val(taxValue) ELSE 0
  IN  subtotal - discount + tax

\* The local `total` of calculateTotal: discount first, tax on what is left.
\* (A percentage of an amount held in 1/Scale is exact.)
calculateTotal(c, discountOn, discountValue, taxOn, taxValue) ==
  LET subtotal == Subtotal(c)
      discount == IF discountOn /\ Positive(discountValue)
                  THEN (subtotal \div 100) * Val(discountValue) ELSE 0
      afterDiscount == subtotal - discount
      tax == IF taxOn /\ Positive(taxValue)
             THEN (afterDiscount \div 100) * Val(taxValue) ELSE 0
  IN  afterDiscount + tax

calculateTotalNow(c, d) ==
  calculateTotal(c, d.discount_toggle, d.discount_value, d.tax_toggle, d.tax_value)

\* formatCurrency(amount): amount.toFixed(precision) with thousands separators
\* after the currency symbol. The text is held by the number its digits spell:
\* the amount rounded to `precision` decimals (a tie goes up), decimal point dropped.
RECURSIVE Pow10(_)
Pow10(n) == IF n = 0 THEN 1 ELSE 10 * Pow10(n - 1)

formatCurrency(amount, precision) ==
  (2 * amount * Pow10(precision) + Scale) \div (2 * Scale)

\* parseFloat(totalText.replace(/[^\d]/g, '')) || 0, in 1/Scale
parseTotalText(digits) == Scale * digits

\* parseFloat(input.value) || 0, in 1/Scale
parseAmount(x) == IF IsNum(x) THEN Scale * Val(x) ELSE 0

\* The currency precision formatCurrency reads from the settings store (its
\* built-in default when the record is absent).
CurrencyPrecision ==
  IF "currency" \in DOMAIN settings THEN settings["currency"].precision ELSE 0

\* generateInvoiceNumber(): INV-YYMMDD-HHMMSS of the current second.
generateInvoiceNumber(now) == <<now>>

\* ------------------------------------------------------------ input sets
Codes == {"A", "B"}
Names == {"Teh"}
Categories == {"Minuman"}
\* Values typed into the number inputs of the product form (parseFloat/parseInt).
PriceInputs == {Num(14)}
CostInputs == {Num(10)}
StockInputs == {Num(n) : n \in -1..MaxStock}
\* The stock typed into the full product form: none valid, or a full shelf.
FormStockInputs == {Num(-1), Num(MaxStock)}
MinStockInputs == {Num(0)}
\* Values typed into a cart line's quantity input.
QtyInputs == {NaN} \cup {Num(n) : n \in 0..(MaxStock + 1)}
\* Percentages typed into discount-value.
PctInputs == {Num(50)}
\* Amounts typed into amount-received.
AmountInputs == {15, 28}

\* ------------------------------------------------------------------- init
\* loadDefaultSettings' four records.
DefaultSettings ==
  [id \in {"store", "receipt", "taxRate", "currency"} |->
     CASE id = "store"    -> [id |-> id, name |-> "Toko Saya", address |-> ""]
       [] id = "receipt"  -> [id |-> id, showTax |-> FALSE]
       [] id = "taxRate"  -> [id |-> id, value |-> 10]
       [] id = "currency" -> [id |-> id, symbol |-> "Rp", precision |-> 0]]

\* The page as the document delivers it: no digits in total-amount, both toggles
\* off, empty inputs, the static text of current-invoice (<<>>).
InitialDom ==
  [total_amount |-> 0, discount_toggle |-> FALSE, discount_value |-> NaN,
   tax_toggle |-> FALSE, tax_value |-> NaN, amount_received |-> NaN,
   current_invoice |-> <<>>, report |-> <<>>]

\* The dashboard elements as the document delivers them (<<>>: the static text).
InitialDashboard ==
  [pending |-> {}, pendingFmt |-> <<>>, today_sales |-> <<>>, total_products |-> <<>>,
   popular |-> [state |-> "document", rows |-> <<>>]]

\* loadDashboard, as far as it runs: it requests today's transactions and the
\* product count, then productStore.index('stock') throws (openDatabase creates
\* no such index). The restock list is not requested and loadPopularProducts()
\* is not called.
loadDashboard(d) == [d EXCEPT !.pending = {"today-sales", "total-products"}]

\* The cache worker while the page is studied alone: active, with nothing cached
\* and no fetch event in hand.
\* No row button has been clicked.
NoClick == [target |-> <<>>, calls |-> <<>>, error |-> FALSE]

WorkerIdle ==
  /\ worker = [state |-> "activated", deleting |-> {}, deleted |-> {}]
  /\ caches = Empty
  /\ inflight = <<>>
  /\ served = [method |-> "", url |-> "", response |-> <<>>, from |-> "none"]

\* No request of loadDefaultSettings is outstanding.
NoSeeding == [id \in DOMAIN DefaultSettings |-> "idle"]

NoBackup == [stage |-> "none", file |-> Empty, orig |-> Empty, left |-> {}]

\* No callback of a handler outstanding, and the toast of initApp's catch: it
\* registered the listeners and failed in loadDashboard (no index 'stock'
\* exists), whose first two requests are outstanding.
NoCallbacks ==
  /\ pendingFmt = <<>>
  /\ pendingTax = 0
  /\ commits = <<>>
  /\ pendingDel = <<>>
  /\ backup = NoBackup
  /\ toast = "Gagal memuat aplikasi"
  /\ formError = {}
  /\ clock = 0
  /\ seeding = NoSeeding
  /\ dashboard = loadDashboard(InitialDashboard)
  /\ click = NoClick
  /\ audit = <<>>

NothingPending == NoCallbacks /\ WorkerIdle

\* The page once initApp has run: an empty cart and the document's fields;
\* generateInvoiceNumberDisplay never ran.
PageLoaded ==
  /\ cart = <<>>
  /\ dom = InitialDom
  /\ NothingPending

\* A first run: initApp opened an empty database and seeded the settings.
Init ==
  /\ products = Empty
  /\ suppliers = Empty
  /\ transactions = Empty
  /\ settings = DefaultSettings
  /\ nextKey = [products |-> 1, suppliers |-> 1, transactions |-> 1]
  /\ cashier = Empty
  /\ PageLoaded

\* The transactions recorded during the run, which starts at clock 0 (a sale of
\* an earlier session of the page has an earlier date).
Recorded == {k \in DOMAIN transactions : transactions[k].date.v >= 0}

\* The run goes on until MaxTxns checkouts are recorded and none is outstanding.
SessionOpen == Cardinality(Recorded) < MaxTxns \/ commits # <<>>

\* Room for one more display refresh (the bound on outstanding refreshes).
CanRefresh == SessionOpen /\ Len(pendingFmt) + pendingTax < MaxPending

\* Observer flag of an outstanding checkout: solo while no other handler has
\* changed the cart or a store since its click.
Disturbed(cs) == [i \in 1..Len(cs) |-> [cs[i] EXCEPT !.solo = FALSE]]

DisturbedOthers(cs, i) ==
  [j \in 1..Len(cs) |-> IF j = i THEN cs[j] ELSE [cs[j] EXCEPT !.solo = FALSE]]

\* A form for a new record whose code a record of the store already has (such a
\* submission creates nothing, so it is not counted against the bound on
\* created records).
DuplicateCreate(store, form) ==
  ~IsNum(form.id) /\ \E k \in DOMAIN store : store[k].code = form.code

\* ---------------------------------------------------------- product form
\* A validation that tests for missing values only (the variant C19 is tested
\* against).
ProductFormErrorsOfMissing(form) ==
  {e \in {"code-error", "name-error", "category-error", "price-error", "cost-error",
          "stock-error", "min-stock-error"} :
     CASE e = "code-error"      -> form.code = ""
       [] e = "name-error"      -> form.name = ""
       [] e = "category-error"  -> form.category = ""
       [] e = "price-error"     -> ~IsNum(form.price)
       [] e = "cost-error"      -> ~IsNum(form.cost)
       [] e = "stock-error"     -> ~IsNum(form.stock)
       [] e = "min-stock-error" -> ~IsNum(form.minStock)}

\* The inline errors validateProductForm shows (showError), by element id.
ProductFormErrors(form) ==
  {e \in {"code-error", "name-error", "category-error", "price-error", "cost-error",
          "stock-error", "min-stock-error"} :
     CASE e = "code-error"      -> form.code = ""
       [] e = "name-error"      -> form.name = ""
       [] e = "category-error"  -> form.category = ""
       [] e = "price-error"     -> ~IsNum(form.price) \/ Val(form.price) < 0
       [] e = "cost-error"      -> ~IsNum(form.cost) \/ Val(form.cost) < 0
       [] e = "stock-error"     -> ~IsNum(form.stock) \/ Val(form.stock) < 0
       [] e = "min-stock-error" -> ~IsNum(form.minStock) \/ Val(form.minStock) < 0}

validateProductForm(form) == ProductFormErrors(form) = {}

\* The record saveProduct builds from the form (id is set by the caller).
ProductOf(form, id, now) ==
  [id |-> id, code |-> form.code, name |-> form.name, category |-> form.category,
   price |-> Val(form.price), cost |-> Val(form.cost), stock |-> Val(form.stock),
   minStock |-> Val(form.minStock), supplierId |-> form.supplierId,
   updatedAt |-> Date(now)]

\* The product forms a user can submit: product-id is '' (<<>>) for a new product
\* or the id of the product the form was opened on; product-supplier is '' (null)
\* or the option value of a listed supplier, a string.
ProductForms ==
  [id : {NaN} \cup {Num(k) : k \in DOMAIN products},
   code : Codes, name : Names, category : Categories,
   price : PriceInputs, cost : CostInputs, stock : FormStockInputs,
   minStock : MinStockInputs,
   supplierId : {Null} \cup {String(k) : k \in DOMAIN suppliers}]

\* saveProduct on a form just opened (showProductForm cleared its errors), with
\* the callback of its storage call. The success callback calls loadProducts()
\* and then loadDashboard(), which throws (the products store has no index
\* 'stock'): the promise's catch runs, and loadCashierProducts() is never reached.
saveProduct(form) ==
  IF ~validateProductForm(form)
  THEN /\ formError' = ProductFormErrors(form)
       /\ UNCHANGED <<products, nextKey, toast, dashboard>>
  ELSE IF IsNum(form.id)
       THEN LET r == updateRecord(products, ProductOf(form, Val(form.id), clock),
                                  ProductIndexes)
            IN  /\ products' = r.store
                /\ toast' = "Gagal memperbarui produk"
                /\ formError' = {}
                /\ dashboard' = IF r.ok THEN loadDashboard(dashboard) ELSE dashboard
                /\ UNCHANGED nextKey
       ELSE LET r == addRecord(products, nextKey.products,
                               [createdAt |-> Date(clock)]
                                 @@ ProductOf(form, nextKey.products, clock),
                               ProductIndexes)
            IN  /\ products' = r.store
                /\ nextKey' = IF r.ok THEN [nextKey EXCEPT !.products = @ + 1] ELSE nextKey
                /\ toast' = IF r.ok THEN "Gagal menambahkan produk" ELSE toast
                /\ formError' = IF r.ok THEN {} ELSE {"code-error"}
                /\ dashboard' = IF r.ok THEN loadDashboard(dashboard) ELSE dashboard

SaveProduct ==
  \E form \in ProductForms :
    /\ SessionOpen
    /\ IsNum(form.id) \/ nextKey.products <= MaxProducts
         \/ DuplicateCreate(products, form)
    /\ saveProduct(form)
    /\ commits' = IF products' # products THEN Disturbed(commits) ELSE commits
    /\ UNCHANGED <<suppliers, transactions, settings, cart, cashier, dom, pendingFmt,
                   pendingTax, pendingDel, audit, backup, clock, seeding, swVars, click>>

\* A product form with a field left empty or given a negative number, or with
\* several such fields.
FaultsOf(form) ==
  {[form EXCEPT !.code = ""], [form EXCEPT !.name = ""], [form EXCEPT !.category = ""],
   [form EXCEPT !.code = "", !.price = NaN, !.minStock = Num(0 - 1)]}
  \cup {[form EXCEPT !.price = x] : x \in {NaN, Num(0 - 1)}}
  \cup {[form EXCEPT !.cost = x] : x \in {NaN, Num(0 - 1)}}
  \cup {[form EXCEPT !.stock = x] : x \in {NaN, Num(0 - 1)}}
  \cup {[form EXCEPT !.minStock = x] : x \in {NaN, Num(0 - 1)}}

FaultyProductForms == UNION {FaultsOf(form) : form \in ProductForms}

SaveFaultyProduct ==
  \E form \in FaultyProductForms :
    /\ SessionOpen
    /\ saveProduct(form)
    /\ commits' = IF products' # products THEN Disturbed(commits) ELSE commits
    /\ UNCHANGED <<suppliers, transactions, settings, cart, cashier, dom, pendingFmt,
                   pendingTax, pendingDel, audit, backup, clock, seeding, swVars, click>>

\* The form opened on a stored product (showProductForm fills it from the record)
\* and submitted with another stock typed in.
StockForms ==
  {[id |-> Num(k), code |-> products[k].code, name |-> products[k].name,
    category |-> products[k].category, price |-> Num(products[k].price),
    cost |-> Num(products[k].cost), stock |-> st, minStock |-> Num(products[k].minStock),
    supplierId |-> products[k].supplierId] : k \in DOMAIN products, st \in StockInputs}

EditProductStock ==
  \E form \in StockForms :
    /\ SessionOpen
    /\ saveProduct(form)
    /\ commits' = IF products' # products THEN Disturbed(commits) ELSE commits
    /\ UNCHANGED <<suppliers, transactions, settings, cart, cashier, dom, pendingFmt,
                   pendingTax, pendingDel, audit, backup, clock, seeding, swVars, click>>

\* The form opened on a stored product and submitted with another price.
NewPrices == {Num(10)}

PriceForms ==
  {[id |-> Num(k), code |-> products[k].code, name |-> products[k].name,
    category |-> products[k].category, price |-> p, cost |-> Num(products[k].cost),
    stock |-> Num(products[k].stock), minStock |-> Num(products[k].minStock),
    supplierId |-> products[k].supplierId] : k \in DOMAIN products, p \in NewPrices}

EditProductPrice ==
  \E form \in PriceForms :
    /\ SessionOpen
    /\ saveProduct(form)
    /\ commits' = IF products' # products THEN Disturbed(commits) ELSE commits
    /\ UNCHANGED <<suppliers, transactions, settings, cart, cashier, dom, pendingFmt,
                   pendingTax, pendingDel, audit, backup, clock, seeding, swVars, click>>

\* loadCashierProducts (showPage('cashier')): one clickable item per product with
\* stock > 0, each closing over the product object read.
loadCashierProducts(store) == [k \in {x \in DOMAIN store : store[x].stock > 0} |-> store[k]]

ShowCashierPage ==
  /\ SessionOpen
  /\ cashier' = loadCashierProducts(products)
  /\ UNCHANGED <<dbVars, cart, dom, pendingFmt, pendingTax, commits, pendingDel, audit,
                 backup, toast, formError, clock, seeding, dashboard, swVars, click>>

\* ------------------------------------------------------- cashier handlers
\* A cart line object a pending processPayment still holds: its stock update reads
\* item.quantity when the product arrives. While the object is in the cart
\* (live), the cart handlers change that quantity in place.
SyncLine(l, c) ==
  IF ~l.live THEN l
  ELSE LET j == Find(c, l.id) IN
       IF j = 0 THEN [l EXCEPT !.live = FALSE] ELSE [l EXCEPT !.quantity = c[j].quantity]

SyncCommits(cs, c) ==
  [i \in 1..Len(cs) |->
     [cs[i] EXCEPT !.lines = [k \in 1..Len(cs[i].lines) |-> SyncLine(cs[i].lines[k], c)]]]

\* A cart handler's effect: the cart, the toast, and through updateCart() and
\* updateCartSummary() a calculateTotal() whose formatCurrency is left pending.
CartStep(r) ==
  /\ cart' = r.cart
  /\ toast' = IF r.toast = "" THEN toast ELSE r.toast
  /\ pendingFmt' = IF r.updated THEN Append(pendingFmt, calculateTotalNow(r.cart, dom))
                   ELSE pendingFmt
  /\ commits' = IF r.cart # cart THEN Disturbed(SyncCommits(commits, r.cart)) ELSE commits
  /\ UNCHANGED <<dbVars, cashier, dom, pendingTax, pendingDel, audit, backup, formError,
                 clock, seeding, dashboard, swVars, click>>

AddToCart ==
  /\ CanRefresh
  /\ \E id \in DOMAIN cashier : CartStep(addToCart(cart, cashier[id]))

IncreaseQuantity ==
  /\ CanRefresh
  /\ \E i \in 1..Len(cart) : CartStep(increaseQuantity(cart, cart[i].id))

DecreaseQuantity ==
  /\ CanRefresh
  /\ \E i \in 1..Len(cart) : CartStep(decreaseQuantity(cart, cart[i].id))

UpdateQuantity ==
  /\ CanRefresh
  /\ \E i \in 1..Len(cart), q \in QtyInputs : CartStep(updateQuantity(cart, cart[i].id, q))

RemoveFromCart ==
  /\ CanRefresh
  /\ \E i \in 1..Len(cart) : CartStep(removeFromCart(cart, cart[i].id))

ClearCart ==
  /\ CanRefresh
  /\ Len(cart) > 0
  /\ CartStep(clearCart(cart))

\* toggleDiscount: the checkbox has flipped; the value becomes '10' or ''.
toggleDiscount(d) ==
  [d EXCEPT !.discount_toggle = ~@,
            !.discount_value = IF d.discount_toggle THEN NaN ELSE Num(10)]

ToggleDiscount ==
  /\ CanRefresh
  /\ dom' = toggleDiscount(dom)
  /\ pendingFmt' = Append(pendingFmt, calculateTotalNow(cart, dom'))
  /\ UNCHANGED <<dbVars, cart, cashier, pendingTax, commits, pendingDel, audit, backup,
                 toast, formError, clock, seeding, dashboard, swVars, click>>

\* Typing into discount-value (enabled while the toggle is on): no listener.
SetDiscountValue ==
  /\ SessionOpen
  /\ dom.discount_toggle
  /\ \E v \in PctInputs : dom' = [dom EXCEPT !.discount_value = v]
  /\ UNCHANGED <<dbVars, cart, cashier, pendingFmt, pendingTax, commits, pendingDel, audit,
                 backup, toast, formError, clock, seeding, dashboard, swVars, click>>

\* toggleTax: switched off, the value is cleared and nothing is recomputed;
\* switched on, the tax rate is requested from the settings store.
ToggleTax ==
  /\ SessionOpen
  /\ dom.tax_toggle \/ CanRefresh
  /\ dom' = [dom EXCEPT !.tax_toggle = ~@,
                        !.tax_value = IF dom.tax_toggle THEN NaN ELSE @]
  /\ pendingTax' = IF dom.tax_toggle THEN pendingTax ELSE pendingTax + 1
  /\ UNCHANGED <<dbVars, cart, cashier, pendingFmt, commits, pendingDel, audit, backup,
                 toast, formError, clock, seeding, dashboard, swVars, click>>

\* The callback of toggleTax's getRecord(settings, 'taxRate').
TaxRateLoaded ==
  /\ pendingTax > 0
  /\ pendingTax' = pendingTax - 1
  /\ dom' = [dom EXCEPT !.tax_value =
               IF "taxRate" \in DOMAIN settings THEN Num(settings["taxRate"].value)
               ELSE Num(10)]
  /\ pendingFmt' = Append(pendingFmt, calculateTotalNow(cart, dom'))
  /\ UNCHANGED <<dbVars, cart, cashier, commits, pendingDel, audit, backup, toast, formError,
                 clock, seeding, dashboard, swVars, click>>

\* Typing into amount-received (calculateChange only fills the change field).
SetAmountReceived ==
  /\ SessionOpen
  /\ \E v \in AmountInputs : dom' = [dom EXCEPT !.amount_received = Num(v)]
  /\ UNCHANGED <<dbVars, cart, cashier, pendingFmt, pendingTax, commits, pendingDel, audit,
                 backup, toast, formError, clock, seeding, dashboard, swVars, click>>

\* The callback of calculateTotal's formatCurrency(total): total-amount is set.
FormatCurrencyDone ==
  /\ pendingFmt # <<>>
  /\ dom' = [dom EXCEPT !.total_amount = formatCurrency(Head(pendingFmt), CurrencyPrecision)]
  /\ pendingFmt' = Tail(pendingFmt)
  /\ UNCHANGED <<dbVars, cart, cashier, pendingTax, commits, pendingDel, audit, backup,
                 toast, formError, clock, seeding, dashboard, swVars, click>>

Tick ==
  /\ clock < MaxClock
  /\ clock' = clock + 1
  /\ UNCHANGED <<dbVars, cart, cashier, dom, pendingFmt, pendingTax, commits,
                 pendingDel, audit, backup, toast, formError, seeding, dashboard, swVars, click>>

\* ---------------------------------------------------------------- checkout
\* The items of the transaction: a copy of each cart line.
ItemsOf(c) ==
  [i \in 1..Len(c) |-> [productId |-> c[i].id, code |-> c[i].code, name |-> c[i].name,
                        price |-> c[i].price, quantity |-> c[i].quantity]]

\* processPayment's discount: subtotal * (parseFloat(discount-value) / 100) when
\* the toggle is on (NaN for an empty value), else 0.
PaymentDiscount(c, d) ==
  IF d.discount_toggle
  THEN IF IsNum(d.discount_value) THEN Num((Subtotal(c) \div 100) * Val(d.discount_value))
       ELSE NaN
  ELSE Num(0)

\* processPayment's tax: (subtotal - discount) * (parseFloat(tax-value) / 100)
\* when the toggle is on, else 0.
PaymentTax(c, d) ==
  IF d.tax_toggle
  THEN IF IsNum(PaymentDiscount(c, d)) /\ IsNum(d.tax_value)
       THEN Num(((Subtotal(c) - Val(PaymentDiscount(c, d))) \div 100) * Val(d.tax_value))
       ELSE NaN
  ELSE Num(0)

\* The total processPayment charges: the digits of the text of total-amount.
PaymentTotal(d) == parseTotalText(d.total_amount)

\* The transaction object processPayment builds (the store adds its id).
TransactionOf(c, d, now) ==
  [invoice |-> d.current_invoice, date |-> Date(now), items |-> ItemsOf(c),
   subtotal |-> Subtotal(c), discount |-> PaymentDiscount(c, d), tax |-> PaymentTax(c, d),
   total |-> PaymentTotal(d), paymentMethod |-> "cash",
   amountReceived |-> parseAmount(d.amount_received),
   change |-> parseAmount(d.amount_received) - PaymentTotal(d)]

\* Whether processPayment goes on to write (its two early returns passed).
PaymentAccepted(c, d) == Len(c) > 0 /\ ~(parseAmount(d.amount_received) < PaymentTotal(d))

\* processPayment: the synchronous part of the click handler, up to addRecord.
\* The invoice is the text current-invoice shows, not a number made at the click.
processPayment ==
  /\ IF Len(cart) = 0
     THEN toast' = "Keranjang belanja kosong" /\ UNCHANGED commits
     ELSE IF ~PaymentAccepted(cart, dom)
          THEN toast' = "Jumlah pembayaran kurang" /\ UNCHANGED commits
          ELSE /\ commits' = Append(commits,
                    [txn |-> TransactionOf(cart, dom, clock), phase |-> "add",
                     lines |-> <<>>, solo |-> TRUE, due |-> calculateTotalNow(cart, dom),
                     pre |-> [products |-> products, transactions |-> transactions,
                              cart |-> cart]])
               /\ UNCHANGED toast
  /\ UNCHANGED <<dbVars, cart, cashier, dom, pendingFmt, pendingTax, pendingDel, audit, backup,
                 formError, clock, seeding, dashboard, swVars, click>>

\* The click on process-payment while no checkout is outstanding.
ProcessPayment ==
  /\ Len(commits) + Cardinality(Recorded) < MaxTxns
  /\ processPayment

\* A further click on process-payment while the callbacks of an earlier click
\* are outstanding (a double click): nothing disables the button meanwhile.
ProcessPaymentAgain ==
  /\ 0 < Len(commits)
  /\ Len(commits) < MaxClicks
  /\ processPayment

\* Stock updates that take one unit per line whatever its quantity (the variant
\* C2 is tested against).
StockUpdatesOfOne(c) ==
  [k \in 1..Len(c) |-> [id |-> c[k].id, quantity |-> 1, live |-> TRUE,
                        st |-> "get", rec |-> <<>>]]

\* The stock updates the add's callback starts: one getRecord per line of the
\* cart as it is then, each holding the line object.
StockUpdates(c) ==
  [k \in 1..Len(c) |-> [id |-> c[k].id, quantity |-> c[k].quantity, live |-> TRUE,
                        st |-> "get", rec |-> <<>>]]

DropAt(cs, i) == [j \in 1..(Len(cs) - 1) |-> IF j < i THEN cs[j] ELSE cs[j + 1]]

Detach(cs) == SyncCommits(cs, <<>>)

\* The form fields after the Promise.all callback of processPayment.
ClearedDom(d, now) ==
  [d EXCEPT !.amount_received = NaN, !.discount_toggle = FALSE, !.tax_toggle = FALSE,
            !.discount_value = NaN, !.tax_value = NaN,
            !.current_invoice = generateInvoiceNumber(now)]

\* The Promise.all callback of commit i: success toast, receipt, cart = [],
\* updateCart() (a calculateTotal() of the empty cart), fields reset, a new
\* invoice number; then loadDashboard() throws, so loadCashierProducts() is
\* not reached and the cashier list keeps the product objects it has.
Finish(cs, i, productsAfter, transactionsAfter) ==
  /\ toast' = "Pembayaran berhasil diproses"
  /\ cart' = <<>>
  /\ pendingFmt' = Append(pendingFmt, calculateTotalNow(<<>>, dom))
  /\ dom' = ClearedDom(dom, clock)
  /\ dashboard' = loadDashboard(dashboard)
  /\ commits' = Disturbed(Detach(DropAt(cs, i)))
  /\ audit' = Append(audit, [txn |-> cs[i].txn, solo |-> cs[i].solo, due |-> cs[i].due,
                             pre |-> cs[i].pre,
                             post |-> [products |-> productsAfter,
                                       transactions |-> transactionsAfter,
                                       cart |-> <<>>]])

\* The first commit whose addRecord is outstanding (adds to one store run in order).
NextAdd == CHOOSE i \in 1..Len(commits) :
             commits[i].phase = "add" /\ \A j \in 1..(i - 1) : commits[j].phase # "add"

\* addRecord(transactions, transaction) completes and its callback runs.
AddRecordDone ==
  /\ \E i \in 1..Len(commits) : commits[i].phase = "add"
  /\ LET i == NextAdd
         key == nextKey.transactions
         r == addRecord(transactions, key, [id |-> key] @@ commits[i].txn,
                        TransactionIndexes)
     IN  IF ~r.ok
         THEN /\ toast' = "Gagal memproses pembayaran"
              /\ commits' = DropAt(commits, i)
              /\ UNCHANGED <<transactions, nextKey, cart, dom, pendingFmt, audit, dashboard>>
         ELSE /\ transactions' = r.store
              /\ nextKey' = [nextKey EXCEPT !.transactions = @ + 1]
              /\ IF Len(cart) = 0
                 THEN Finish(DisturbedOthers(commits, i), i, products, r.store)
                 ELSE /\ commits' = [DisturbedOthers(commits, i) EXCEPT
                                       ![i].phase = "stock",
                                       ![i].lines = StockUpdates(cart)]
                      /\ UNCHANGED <<toast, cart, dom, pendingFmt, audit, dashboard>>
  /\ UNCHANGED <<products, suppliers, settings, cashier, pendingTax, pendingDel, backup,
                 formError, clock, seeding, swVars, click>>

\* getRecord(products, item.id) of line k of commit i completes: the product's
\* stock is reduced by the line's quantity and updateRecord is called; a missing
\* product (undefined) makes the callback throw.
GetRecordDone ==
  \E i \in 1..Len(commits) : \E k \in 1..Len(commits[i].lines) :
    LET l == commits[i].lines[k]
        got == getRecord(products, l.id)
    IN  /\ l.st = "get"
        /\ commits' = [commits EXCEPT ![i].lines[k] =
             IF got = <<>> THEN [l EXCEPT !.st = "failed", !.live = FALSE]
             ELSE [l EXCEPT !.st = "put", !.live = FALSE,
                            !.rec = <<[got[1] EXCEPT !.stock = @ - l.quantity]>>]]
        /\ UNCHANGED <<dbVars, cart, cashier, dom, pendingFmt, pendingTax, pendingDel, audit,
                       backup, toast, formError, clock, seeding, dashboard, swVars, click>>

\* A Promise.all that resolves once every promise is settled, rejected ones
\* included (the variant C20 is tested against).
PromiseAllSettled(lines) ==
  \A j \in 1..Len(lines) : lines[j].st \in {"done", "failed"}

\* Promise.all(productUpdates) resolves: every stock update is written.
PromiseAll(lines) == \A j \in 1..Len(lines) : lines[j].st = "done"

\* updateRecord(products, product) of line k of commit i completes; when it was
\* the last one, Promise.all resolves and its callback runs at once.
UpdateRecordDoneAt(i, k) ==
    LET l == commits[i].lines[k]
        r == updateRecord(products, l.rec[1], ProductIndexes)
        after == [DisturbedOthers(commits, i) EXCEPT
                    ![i].lines[k].st = IF r.ok THEN "done" ELSE "failed",
                    ![i].lines[k].rec = <<>>]
    IN  /\ l.st = "put"
        /\ products' = r.store
        /\ IF PromiseAll(after[i].lines)
           THEN Finish(after, i, r.store, transactions)
           ELSE commits' = after /\ UNCHANGED <<toast, cart, dom, pendingFmt, audit, dashboard>>
        /\ UNCHANGED <<suppliers, transactions, settings, nextKey, cashier, pendingTax,
                       pendingDel, backup, formError, clock, seeding, swVars, click>>

UpdateRecordDone ==
  \E i \in 1..Len(commits) : \E k \in 1..Len(commits[i].lines) : UpdateRecordDoneAt(i, k)

\* ----------------------------------------------------------- product delete
\* deleteProduct once confirmed, with the callback of deleteRecord: the success
\* callback ends in loadDashboard(), which throws, so the catch's toast shows.
deleteProduct(id) ==
  /\ SessionOpen
  /\ products' = deleteRecord(products, id)
  /\ toast' = "Gagal menghapus produk"
  /\ commits' = Disturbed(commits)
  /\ dashboard' = loadDashboard(dashboard)
  /\ UNCHANGED <<suppliers, transactions, settings, nextKey, cart, cashier, dom,
                 pendingFmt, pendingTax, pendingDel, audit, backup, formError, clock,
                 seeding, swVars>>

DeleteProduct == \E id \in DOMAIN products : deleteProduct(id) /\ UNCHANGED click

\* ---------------------------------------------------------------- suppliers
Contacts == {"", "Budi"}

\* The inline errors validateSupplierForm shows, by element id.
SupplierFormErrors(form) ==
  {e \in {"supplier-code-error", "supplier-name-error", "supplier-contact-error",
          "supplier-address-error"} :
     CASE e = "supplier-code-error"    -> form.code = ""
       [] e = "supplier-name-error"    -> form.name = ""
       [] e = "supplier-contact-error" -> form.contact = ""
       [] e = "supplier-address-error" -> form.address = ""}

validateSupplierForm(form) == SupplierFormErrors(form) = {}

\* The record saveSupplier builds from the form (id is set by the caller).
SupplierOf(form, id, now) ==
  [id |-> id, code |-> form.code, name |-> form.name, contact |-> form.contact,
   address |-> form.address, email |-> Null, phone |-> Null, updatedAt |-> Date(now)]

\* The supplier forms a user can submit: supplier-id is '' (<<>>) for a new
\* supplier or the id of the supplier the form was opened on.
SupplierForms ==
  [id : {NaN} \cup {Num(k) : k \in DOMAIN suppliers},
   code : Codes, name : Names, contact : Contacts, address : {"Jl. Raya"}]

\* saveSupplier on a form just opened, with the callback of its storage call.
saveSupplier(form) ==
  IF ~validateSupplierForm(form)
  THEN /\ formError' = SupplierFormErrors(form)
       /\ UNCHANGED <<suppliers, nextKey, toast>>
  ELSE IF IsNum(form.id)
       THEN LET r == updateRecord(suppliers, SupplierOf(form, Val(form.id), clock),
                                  SupplierIndexes)
            IN  /\ suppliers' = r.store
                /\ toast' = IF r.ok THEN "Supplier berhasil diperbarui"
                            ELSE "Gagal memperbarui supplier"
                /\ formError' = {}
                /\ UNCHANGED nextKey
       ELSE LET r == addRecord(suppliers, nextKey.suppliers,
                               [createdAt |-> Date(clock)]
                                 @@ SupplierOf(form, nextKey.suppliers, clock),
                               SupplierIndexes)
            IN  /\ suppliers' = r.store
                /\ nextKey' = IF r.ok THEN [nextKey EXCEPT !.suppliers = @ + 1] ELSE nextKey
                /\ toast' = IF r.ok THEN "Supplier berhasil ditambahkan" ELSE toast
                /\ formError' = IF r.ok THEN {} ELSE {"supplier-code-error"}

SaveSupplier ==
  \E form \in SupplierForms :
    /\ IsNum(form.id) \/ nextKey.suppliers <= MaxSuppliers
         \/ DuplicateCreate(suppliers, form)
    /\ saveSupplier(form)
    /\ UNCHANGED <<products, transactions, settings, cart, cashier, dom, pendingFmt,
                   pendingTax, commits, pendingDel, audit, backup, clock, seeding, dashboard,
                   swVars, click>>

\* index.count(key) on a non-unique index of a store: the records whose field is
\* that key. Keys of different types are different keys; null is no key at all.
IndexCount(store, field, key) ==
  Cardinality({k \in DOMAIN store : store[k][field] # Null /\ store[k][field] = key})

\* A product saved through the product form with supplier id selected: the form
\* stores the value of the selected option.
Selected(id) == \E k \in DOMAIN products : products[k].supplierId = String(id)

\* deleteSupplier(id) once confirmed: id is the parseInt of the row's data-id;
\* the count on the products' supplierId index is requested.
deleteSupplier(id) ==
  /\ Len(pendingDel) < MaxPending
  /\ pendingDel' = Append(pendingDel, [id |-> id, st |-> "count", selected |-> FALSE])
  /\ UNCHANGED <<dbVars, cart, cashier, dom, pendingFmt, pendingTax, commits, audit,
                 backup, toast, formError, clock, seeding, dashboard, swVars>>

DeleteSupplier == \E id \in DOMAIN suppliers : deleteSupplier(id) /\ UNCHANGED click

\* The count's onsuccess: a positive count refuses, otherwise deleteRecord is
\* called. (selected is an observer: whether a product had the supplier selected
\* when the count was taken.)
SupplierCountDone ==
  /\ pendingDel # <<>>
  /\ Head(pendingDel).st = "count"
  /\ LET e == Head(pendingDel) IN
     IF IndexCount(products, "supplierId", Number(e.id)) > 0
     THEN /\ toast' = "Tidak dapat menghapus supplier karena ada produk yang terkait"
          /\ pendingDel' = Tail(pendingDel)
     ELSE /\ pendingDel' = <<[e EXCEPT !.st = "delete", !.selected = Selected(e.id)]>>
                             \o Tail(pendingDel)
          /\ UNCHANGED toast
  /\ UNCHANGED <<dbVars, cart, cashier, dom, pendingFmt, pendingTax, commits, audit,
                 backup, formError, clock, seeding, dashboard, swVars, click>>

\* deleteRecord(suppliers, id) completes and its callback runs.
SupplierDeleteDone ==
  /\ pendingDel # <<>>
  /\ Head(pendingDel).st = "delete"
  /\ suppliers' = deleteRecord(suppliers, Head(pendingDel).id)
  /\ toast' = "Supplier berhasil dihapus"
  /\ pendingDel' = Tail(pendingDel)
  /\ UNCHANGED <<products, transactions, settings, nextKey, cart, cashier, dom,
                 pendingFmt, pendingTax, commits, audit, backup, formError, clock, seeding,
                 dashboard, swVars, click>>

\* ------------------------------------------------------- backup and restore
StoreNames == {"products", "transactions", "suppliers", "settings"}

\* The four object stores by name.
Stores == [products |-> products, transactions |-> transactions,
           suppliers |-> suppliers, settings |-> settings]

\* The fields of a record that hold a typed value.
TypedFields == {"supplierId", "updatedAt", "createdAt", "date", "email", "phone"}

\* JSON.stringify of a value, read back by JSON.parse: a Date is written by its
\* toJSON, an ISO string, and comes back as that string; null, numbers and
\* strings come back as they were.
JsonValue(x) == IF x.type = "Date" THEN String(x.v) ELSE x

JsonRecord(r) ==
  [f \in DOMAIN r |-> IF f \in TypedFields THEN JsonValue(r[f]) ELSE r[f]]

\* JSON.parse(JSON.stringify(backup)): per store, the records getAll returned.
JsonBackup(stores) ==
  [s \in StoreNames |-> [k \in DOMAIN stores[s] |-> JsonRecord(stores[s][k])]]

\* The unique indexes of a store.
UniqueIndexes(s) ==
  CASE s = "products" -> ProductIndexes
    [] s = "suppliers" -> SupplierIndexes
    [] s = "transactions" -> TransactionIndexes
    [] OTHER -> {}

\* objectStore.add(item) for each item of a store's array, in one transaction.
RECURSIVE AddAll(_, _, _)
AddAll(store, items, uniq) ==
  IF DOMAIN items = {} THEN [ok |-> TRUE, store |-> store]
  ELSE LET k == CHOOSE x \in DOMAIN items : TRUE
           r == addRecord(store, k, items[k], uniq)
       IN  IF r.ok THEN AddAll(r.store, Del(items, k), uniq) ELSE r

\* The restore transaction of one store: a failed add aborts it, so none of its
\* items is stored.
RestoreItems(store, items, uniq) ==
  LET r == AddAll(store, items, uniq)
  IN  IF r.ok THEN r ELSE [ok |-> FALSE, store |-> store]

\* The key generator after records with explicit keys were added.
RECURSIVE MaxKey(_)
MaxKey(ks) ==
  IF ks = {} THEN 0
  ELSE LET k == CHOOSE x \in ks : TRUE
           m == MaxKey(ks \ {k})
       IN  IF k > m THEN k ELSE m

KeyAfter(next, store) == IF MaxKey(DOMAIN store) >= next THEN MaxKey(DOMAIN store) + 1 ELSE next

\* index('date').getAll(IDBKeyRange.bound(from, to)) with Date bounds: the keys
\* of the transactions whose date is a Date within the bounds (in the order of
\* index keys every Date lies before every String).
TransactionsByDate(store, from, to) ==
  {k \in DOMAIN store :
     store[k].date.type = "Date" /\ from <= store[k].date.v /\ store[k].date.v <= to}

\* backupData, with the callbacks of its four getAll requests: the file is
\* downloaded. (orig is an observer: the stores as they were.)
BackupData ==
  /\ backup.stage = "none"
  /\ backup' = [stage |-> "saved", file |-> JsonBackup(Stores), orig |-> Stores,
                left |-> {}]
  /\ toast' = "Backup data berhasil dibuat"
  /\ UNCHANGED <<dbVars, cart, cashier, dom, pendingFmt, pendingTax, commits, pendingDel,
                 audit, formError, clock, seeding, dashboard, swVars, click>>

\* restoreData with the backup file chosen and the dialog confirmed:
\* reader.readAsText(file) is started.
RestoreData ==
  /\ backup.stage = "saved"
  /\ backup' = [backup EXCEPT !.stage = "reading"]
  /\ UNCHANGED <<dbVars, cart, cashier, dom, pendingFmt, pendingTax, commits, pendingDel,
                 audit, toast, formError, clock, seeding, dashboard, swVars, click>>

\* The text of a chosen file that is not JSON: JSON.parse throws on it.
NotJson == [syntaxError |-> TRUE]

JsonParses(file) == "syntaxError" \notin DOMAIN file

\* reader.onload on a file JSON.parse throws on: the catch of the handler shows
\* the failure toast; no request was made.
RestoreUnparsed ==
  /\ backup.stage = "reading"
  /\ ~JsonParses(backup.file)
  /\ backup' = [backup EXCEPT !.stage = "failed"]
  /\ toast' = "Gagal memproses file backup"
  /\ UNCHANGED <<dbVars, cart, cashier, dom, pendingFmt, pendingTax, commits, pendingDel,
                 audit, formError, clock, seeding, dashboard, swVars, click>>

\* reader.onload: the file is parsed and the four stores are cleared; the
\* callback of the clears opens one restore transaction per store.
RestoreCleared ==
  /\ backup.stage = "reading"
  /\ JsonParses(backup.file)
  /\ products' = Empty
  /\ transactions' = Empty
  /\ suppliers' = Empty
  /\ settings' = Empty
  /\ backup' = [backup EXCEPT !.stage = "restoring", !.left = StoreNames]
  /\ UNCHANGED <<nextKey, cart, cashier, dom, pendingFmt, pendingTax, commits,
                 pendingDel, audit, toast, formError, clock, seeding, dashboard, swVars, click>>

\* The restore transaction of store s ends. Completed, it resolves its promise,
\* and the last one to resolve runs the callback of Promise.all (the success
\* toast; loadDashboard() then throws). Aborted, its promise never resolves.
RestoreStore ==
  \E s \in backup.left :
    LET r == RestoreItems(Stores[s], backup.file[s], UniqueIndexes(s))
        left == backup.left \ {s}
    IN  /\ backup.stage \in {"restoring", "stuck"}
        /\ products' = IF s = "products" THEN r.store ELSE products
        /\ transactions' = IF s = "transactions" THEN r.store ELSE transactions
        /\ suppliers' = IF s = "suppliers" THEN r.store ELSE suppliers
        /\ settings' = IF s = "settings" THEN r.store ELSE settings
        /\ nextKey' = IF s = "settings" THEN nextKey
                      ELSE [nextKey EXCEPT ![s] = KeyAfter(@, r.store)]
        /\ backup' = [backup EXCEPT !.left = left,
                        !.stage = IF ~r.ok \/ backup.stage = "stuck" THEN "stuck"
                                  ELSE IF left = {} THEN "restored" ELSE "restoring"]
        /\ toast' = IF r.ok /\ backup.stage = "restoring" /\ left = {}
                    THEN "Data berhasil direstore" ELSE toast
        /\ dashboard' = IF r.ok /\ backup.stage = "restoring" /\ left = {}
                        THEN loadDashboard(dashboard) ELSE dashboard
        /\ UNCHANGED <<cart, cashier, dom, pendingFmt, pendingTax, commits, pendingDel,
                       audit, formError, clock, seeding, swVars, click>>

\* ------------------------------------------------------------- row buttons
\* What a click in a table row can land on: the edit or the delete button of
\* the row (loadProducts, loadSuppliers) or the icon inside the button. page is
\* the id of the enclosing .page without '-page', id the button's data-id.
RowTargets ==
  [button : {"btn-edit", "btn-delete"}, icon : BOOLEAN, page : {"products"},
   id : DOMAIN products]
  \cup [button : {"btn-edit", "btn-delete"}, icon : BOOLEAN, page : {"suppliers"},
        id : DOMAIN suppliers]

\* e.target.classList.contains(cls): the icon carries the classes fas fa-*.
classListContains(t, cls) == ~t.icon /\ t.button = cls

\* e.target.closest('.' + cls) is an element: the target itself or an ancestor
\* has the class. The row's other button is a sibling of the target's button.
closest(t, cls) == t.button = cls

\* btn of the delete branch is an element (not null): it is looked up as
\* classList.contains('btn-edit') ? e.target : e.target.closest('.btn-edit').
DeleteButtonFound(t) == classListContains(t, "btn-edit") \/ closest(t, "btn-edit")

\* The delegated click listener on a row target: the calls it makes, in order,
\* and whether it raises (btn.getAttribute on null).
rowClick(t) ==
  LET edit == classListContains(t, "btn-edit") \/ closest(t, "btn-edit")
      del  == classListContains(t, "btn-delete") \/ closest(t, "btn-delete")
      editCalls ==
        IF ~edit THEN <<>>
        ELSE IF t.page = "products" THEN <<[fn |-> "showProductForm", id |-> t.id]>>
        ELSE IF t.page = "suppliers" THEN <<[fn |-> "showSupplierForm", id |-> t.id]>>
        ELSE <<>>
      delCalls ==
        IF ~del \/ ~DeleteButtonFound(t) THEN <<>>
        ELSE IF t.page = "products" THEN <<[fn |-> "deleteProduct", id |-> t.id]>>
        ELSE IF t.page = "suppliers" THEN <<[fn |-> "deleteSupplier", id |-> t.id]>>
        ELSE <<>>
  IN  [calls |-> editCalls \o delCalls, error |-> del /\ ~DeleteButtonFound(t)]

\* The error elements of a form (clearFormErrors(formId)).
FormErrorIds(formId) ==
  IF formId = "product-form"
  THEN {"code-error", "name-error", "category-error", "price-error", "cost-error",
        "stock-error", "min-stock-error"}
  ELSE {"supplier-code-error", "supplier-name-error", "supplier-contact-error",
        "supplier-address-error"}

\* A click on a row button, with the function the listener calls for it: the
\* form functions reset the form and clear its errors, the delete functions are
\* the confirmed deleteProduct and deleteSupplier.
ClickRowButton ==
  \E t \in RowTargets :
    LET r == rowClick(t) IN
    /\ click' = [target |-> t, calls |-> r.calls, error |-> r.error]
    /\ IF r.calls = <<>>
       THEN UNCHANGED <<dbVars, cart, cashier, dom, pendingFmt, pendingTax, commits,
                        pendingDel, audit, backup, toast, formError, clock, seeding,
                        dashboard, swVars>>
       ELSE LET call == Head(r.calls) IN
            IF call.fn = "deleteProduct" THEN deleteProduct(call.id)
            ELSE IF call.fn = "deleteSupplier" THEN deleteSupplier(call.id)
            ELSE /\ formError' = formError \
                      FormErrorIds(IF call.fn = "showProductForm" THEN "product-form"
                                   ELSE "supplier-form")
                 /\ UNCHANGED <<dbVars, cart, cashier, dom, pendingFmt, pendingTax,
                                commits, pendingDel, audit, backup, toast, clock,
                                seeding, dashboard, swVars>>

\* ----------------------------------------------------------------- settings
\* A default written with store.put (the variant C16 is tested against).
seedRecordByPut(store, setting) == updateRecord(store, setting, {})

\* addRecord(STORES.SETTINGS, setting) of loadDefaultSettings: store.add under
\* the key path 'id'.
seedRecord(store, setting) == addRecord(store, setting.id, setting, {})

\* The page is loaded again while no checkout, deletion or restore is under way:
\* the handlers and promises of the old page are gone, initApp runs,
\* loadDefaultSettings asks for each default and loadDashboard throws.
ReloadPage ==
  /\ commits = <<>>
  /\ pendingDel = <<>>
  /\ backup.stage = "none"
  /\ cart' = <<>>
  /\ cashier' = Empty
  /\ dom' = InitialDom
  /\ pendingFmt' = <<>>
  /\ pendingTax' = 0
  /\ toast' = "Gagal memuat aplikasi"
  /\ formError' = {}
  /\ seeding' = [id \in DOMAIN DefaultSettings |-> "get"]
  /\ dashboard' = loadDashboard(InitialDashboard)
  /\ UNCHANGED <<dbVars, commits, pendingDel, backup, clock, audit, swVars, click>>

\* The callback of getRecord(settings, setting.id): an absent record is added.
SeedGetDone ==
  \E id \in DOMAIN DefaultSettings :
    /\ seeding[id] = "get"
    /\ seeding' = [seeding EXCEPT ![id] = IF id \in DOMAIN settings THEN "idle" ELSE "add"]
    /\ UNCHANGED <<dbVars, cart, cashier, dom, pendingFmt, pendingTax, commits, pendingDel,
                   audit, backup, toast, formError, clock, dashboard, swVars, click>>

\* That addRecord completes; its promise has no handler, a rejection shows nothing.
SeedAddDone ==
  \E id \in DOMAIN DefaultSettings :
    /\ seeding[id] = "add"
    /\ settings' = seedRecord(settings, DefaultSettings[id]).store
    /\ seeding' = [seeding EXCEPT ![id] = "idle"]
    /\ UNCHANGED <<products, suppliers, transactions, nextKey, cart, cashier, dom,
                   pendingFmt, pendingTax, commits, pendingDel, audit, backup, toast,
                   formError, clock, dashboard, swVars, click>>

\* The store form of the settings page.
StoreForms == [name : {"", "Toko Budi"}, address : {"", "Jl. Raya", "Jl. Baru"}]

\* The inline errors validateStoreSettings shows.
StoreFormErrors(form) ==
  {e \in {"store-name-error", "store-address-error"} :
     CASE e = "store-name-error"    -> form.name = ""
       [] e = "store-address-error" -> form.address = ""}

\* saveStoreSettings with the callback of its updateRecord.
SaveStoreSettings ==
  \E form \in StoreForms :
    /\ IF StoreFormErrors(form) # {}
       THEN formError' = formError \cup StoreFormErrors(form) /\ UNCHANGED <<settings, toast>>
       ELSE /\ settings' = updateRecord(settings, [id |-> "store", name |-> form.name,
                                                   address |-> form.address], {}).store
            /\ toast' = "Pengaturan toko berhasil disimpan"
            /\ UNCHANGED formError
    /\ UNCHANGED <<products, suppliers, transactions, nextKey, cart, cashier, dom,
                   pendingFmt, pendingTax, commits, pendingDel, audit, backup, clock,
                   seeding, dashboard, swVars, click>>

\* saveReceiptSettings (no logo chosen) with the callback of its updateRecord.
SaveReceiptSettings ==
  \E showTax \in BOOLEAN :
    /\ settings' = updateRecord(settings, [id |-> "receipt", showTax |-> showTax], {}).store
    /\ toast' = "Pengaturan struk berhasil disimpan"
    /\ UNCHANGED <<products, suppliers, transactions, nextKey, cart, cashier, dom,
                   pendingFmt, pendingTax, commits, pendingDel, audit, backup, formError,
                   clock, seeding, dashboard, swVars, click>>

\* ------------------------------------------------------------------ reports
\* Time is counted in ticks of UTC; a calendar day has DayLength of them.
DayLength == 2
\* The offset of the browser's local time from UTC, in ticks.
Zones == {0 - 1, 0, 1}
\* The days a date input of the report page is set to.
ReportDays == 0..2

\* new Date('YYYY-MM-DD') of a date input's value: the UTC midnight of the day.
parseDate(day) == DayLength * day

\* date.setHours(0, 0, 0, 0): the local midnight of the local day the instant
\* lies in.
startOfDay(t, zone) == DayLength * ((t + zone) \div DayLength) - zone

\* date.setHours(23, 59, 59, 999): the last instant of that local day.
endOfDay(t, zone) == startOfDay(t, zone) + DayLength - 1

RECURSIVE SumOver(_, _)
SumOver(ks, g) ==
  IF ks = {} THEN 0
  ELSE LET k == CHOOSE x \in ks : TRUE IN g[k] + SumOver(ks \ {k}, g)

\* The range generateReport queries: for 'daily' both bounds come from
\* report-date, for 'custom' from start-date and end-date.
ReportRange(type, from, to, zone) ==
  LET startDate == startOfDay(parseDate(from), zone)
  IN  [startDate |-> startDate,
       endDate |-> IF type = "daily" THEN endOfDay(startDate, zone)
                   ELSE endOfDay(parseDate(to), zone)]

\* What request.onsuccess of generateReport shows: the rows (by transaction
\* id), report-total-transactions, report-total-items and the totalSales given
\* to formatCurrency. (type, from, to and zone record what was asked.)
generateReport(store, type, from, to, zone) ==
  LET range == ReportRange(type, from, to, zone)
      rows == TransactionsByDate(store, range.startDate, range.endDate)
  IN  [type |-> type, from |-> from, to |-> to, zone |-> zone,
       rows |-> rows,
       totalSales |-> SumOver(rows, [k \in rows |-> store[k].total]),
       count |-> Cardinality(rows),
       totalItems |-> SumOver(rows, [k \in rows |->
                        SumSeq([i \in 1..Len(store[k].items) |->
                                  store[k].items[i].quantity])])]

\* The click on generate-report with the callback of its index request.
\* IDBKeyRange.bound throws when the lower bound lies above the upper one, and
\* the page keeps what it showed.
GenerateReport ==
  \E type \in {"daily", "custom"}, from \in ReportDays, to \in ReportDays, zone \in Zones :
    LET range == ReportRange(type, from, to, zone) IN
    /\ type = "daily" => to = from
    /\ dom' = IF range.startDate > range.endDate THEN dom
              ELSE [dom EXCEPT !.report = <<generateReport(transactions, type, from, to, zone)>>]
    /\ UNCHANGED <<dbVars, cart, cashier, pendingFmt, pendingTax, commits, pendingDel,
                   audit, backup, toast, formError, clock, seeding, dashboard, swVars, click>>

\* --------------------------------------------------------------- dashboard
\* The quantity of product id among the items of a transaction.
ItemQuantity(items, id) ==
  SumSeq([i \in 1..Len(items) |->
            IF items[i].productId = id THEN items[i].quantity ELSE 0])

\* loadPopularProducts' productSales: quantity sold per product id over all
\* transactions.
productSales(store) ==
  [id \in UNION {{store[k].items[i].productId : i \in 1..Len(store[k].items)} :
                   k \in DOMAIN store} |->
     SumOver(DOMAIN store, [k \in DOMAIN store |-> ItemQuantity(store[k].items, id)])]

\* Object.entries(productSales).sort((a, b) => b[1] - a[1]): the entries come in
\* ascending order of the id and the sort is stable.
RECURSIVE SortBySales(_, _)
SortBySales(ids, sales) ==
  IF ids = {} THEN <<>>
  ELSE LET first == CHOOSE x \in ids :
                      \A y \in ids : sales[y] < sales[x] \/ (sales[y] = sales[x] /\ x <= y)
       IN  <<first>> \o SortBySales(ids \ {first}, sales)

\* .slice(0, 5)
TopCount == 5

\* The ids of the sequence that have a product record, in its order.
FoundProducts(ids, prods) ==
  LET F[i \in 0..Len(ids)] ==
        IF i = 0 THEN <<>>
        ELSE IF ids[i] \in DOMAIN prods THEN Append(F[i - 1], ids[i]) ELSE F[i - 1]
  IN  F[Len(ids)]

\* loadPopularProducts with displayPopularProducts: what popular-products shows
\* once the requests have completed. An id without a product record is skipped;
\* displayPopularProducts sorts again, which keeps the order.
loadPopularProducts(store, prods) ==
  LET sales == productSales(store)
      sorted == SortBySales(DOMAIN sales, sales)
      top == SubSeq(sorted, 1, IF Len(sorted) < TopCount THEN Len(sorted) ELSE TopCount)
      found == FoundProducts(top, prods)
  IN  IF Len(top) = 0 THEN [state |-> "none", rows |-> <<>>]
      ELSE [state |-> "list",
            rows |-> [i \in 1..Len(found) |->
                        [id |-> found[i], name |-> prods[found[i]].name,
                         quantitySold |-> sales[found[i]]]]]

\* The dashboard link, refresh-restock or refresh-popular is clicked:
\* loadDashboard() is called outside any try, its exception shows nothing.
LoadDashboard ==
  /\ Len(dashboard.pendingFmt) < MaxPending
  /\ dashboard' = loadDashboard(dashboard)
  /\ UNCHANGED <<dbVars, cart, cashier, dom, pendingFmt, pendingTax, commits, pendingDel,
                 audit, backup, toast, formError, clock, seeding, swVars, click>>

\* index('date').getAll(bound(today, tomorrow)) completes: the totals are summed
\* and formatCurrency is called.
TodaySalesDone ==
  \E zone \in Zones :
    LET today == startOfDay(clock, zone)
        sold == TransactionsByDate(transactions, today, today + DayLength)
    IN  /\ "today-sales" \in dashboard.pending
        /\ dashboard' =
             [dashboard EXCEPT
                !.pending = @ \ {"today-sales"},
                !.pendingFmt = Append(@, SumOver(sold, [k \in sold |-> transactions[k].total]))]
        /\ UNCHANGED <<dbVars, cart, cashier, dom, pendingFmt, pendingTax, commits,
                       pendingDel, audit, backup, toast, formError, clock, seeding, swVars, click>>

\* That formatCurrency resolves: today-sales shows the amount.
TodaySalesFormatted ==
  /\ dashboard.pendingFmt # <<>>
  /\ dashboard' =
       [dashboard EXCEPT
          !.today_sales = <<formatCurrency(Head(dashboard.pendingFmt), CurrencyPrecision)>>,
          !.pendingFmt = Tail(@)]
  /\ UNCHANGED <<dbVars, cart, cashier, dom, pendingFmt, pendingTax, commits, pendingDel,
                 audit, backup, toast, formError, clock, seeding, swVars, click>>

\* productStore.count() completes: total-products shows the count.
ProductCountDone ==
  /\ "total-products" \in dashboard.pending
  /\ dashboard' = [dashboard EXCEPT !.pending = @ \ {"total-products"},
                                    !.total_products = <<Cardinality(DOMAIN products)>>]
  /\ UNCHANGED <<dbVars, cart, cashier, dom, pendingFmt, pendingTax, commits, pendingDel,
                 audit, backup, toast, formError, clock, seeding, swVars, click>>

\* ------------------------------------------------------------ cache worker
\* const CACHE_NAME
CACHE_NAME == "kasir-pos-v2"

\* Caches an earlier version of the worker left on the origin.
OldCacheNames == {"kasir-pos-v1"}

\* CacheStorage keeps its caches in the order they were created.
CacheOrder == <<"kasir-pos-v1", CACHE_NAME>>

\* const ASSETS_TO_CACHE: a same-origin and a cross-origin entry of the list.
ASSETS_TO_CACHE ==
  {"/app.js", "https://cdnjs.cloudflare.com/ajax/libs/font-awesome/6.0.0-beta3/css/all.min.css"}

\* The URLs pages request: the assets, and a same-origin and a cross-origin URL
\* that are not assets.
Urls == ASSETS_TO_CACHE \cup {"/manifest.json", "https://fonts.gstatic.com/poppins.woff2"}

Methods == {"GET", "POST"}

SameOrigin(url) == url \in {"/app.js", "/manifest.json"}

\* What the network answers: nothing (<<>>, fetch rejects) or a response. A
\* same-origin response has type basic; a cross-origin one is cors or opaque
\* (status 0). body tells one version of the content from another.
Response(status, type, body) == [status |-> status, type |-> type, body |-> body]

NetworkResults(url) ==
  {<<>>} \cup
  (IF SameOrigin(url)
   THEN {<<Response(200, "basic", b)>> : b \in 1..2} \cup {<<Response(404, "basic", 0)>>}
   ELSE {<<Response(200, "cors", 1)>>, <<Response(0, "opaque", 0)>>})

\* The worker is registered by the page and being installed; no page has been
\* answered by it.
NoResponse == [method |-> "", url |-> "", response |-> <<>>, from |-> "none"]

\* caches.open(name): the cache, created empty when absent.
OpenCache(cs, name) == IF name \in DOMAIN cs THEN cs ELSE Put(cs, name, Empty)

\* cache.put(request, response) on the cache CACHE_NAME.
CachePut(cs, url, response) ==
  LET opened == OpenCache(cs, CACHE_NAME)
  IN  Put(opened, CACHE_NAME, Put(opened[CACHE_NAME], url, response))

\* caches.match(request): the response of the first cache, in creation order,
\* that holds the URL; undefined (<<>>) when none does.
CachesMatch(cs, url) ==
  LET holding == {i \in 1..Len(CacheOrder) :
                    CacheOrder[i] \in DOMAIN cs /\ url \in DOMAIN cs[CacheOrder[i]]}
  IN  IF holding = {} THEN <<>>
      ELSE <<cs[CacheOrder[CHOOSE i \in holding : \A j \in holding : i <= j]][url]>>

\* A response the fetch handler stores whatever its type (the variant C24 is
\* tested against).
CacheableByStatus(response) == response.status = 200

\* The fetch handler stores a response unless
\* !response || response.status !== 200 || response.type !== 'basic'.
Cacheable(response) == response.status = 200 /\ response.type = "basic"

\* An activation that deletes every cache (the variant C25 is tested against).
CachesToDeleteAll(names) == names

\* The caches the activate handler deletes: cacheName !== CACHE_NAME.
CachesToDelete(names) == names \ {CACHE_NAME}

\* The install event: caches.open(CACHE_NAME), then cache.addAll fetches every
\* asset and stores them all, or rejects and stores none when a fetch fails or
\* a response is not ok; the worker is then discarded.
Install ==
  /\ worker.state = "installing"
  /\ \E got \in [ASSETS_TO_CACHE -> UNION {NetworkResults(url) : url \in ASSETS_TO_CACHE}] :
       /\ \A url \in ASSETS_TO_CACHE : got[url] \in NetworkResults(url)
       /\ LET opened == OpenCache(caches, CACHE_NAME)
              ok == \A url \in ASSETS_TO_CACHE :
                      /\ got[url] # <<>>
                      /\ got[url][1].status >= 200
                      /\ got[url][1].status <= 299
          IN  IF ok
              THEN /\ caches' = Put(opened, CACHE_NAME,
                                    [url \in DOMAIN opened[CACHE_NAME] \cup ASSETS_TO_CACHE |->
                                       IF url \in ASSETS_TO_CACHE THEN got[url][1]
                                       ELSE opened[CACHE_NAME][url]])
                   /\ worker' = [worker EXCEPT !.state = "installed"]
              ELSE /\ caches' = opened
                   /\ worker' = [worker EXCEPT !.state = "redundant"]
  /\ UNCHANGED <<pageVars, inflight, served>>

\* The activate event: caches.keys() resolves and a delete is issued for every
\* name other than CACHE_NAME.
Activate ==
  /\ worker.state = "installed"
  /\ worker' = [worker EXCEPT !.state = "activating",
                               !.deleting = CachesToDelete(DOMAIN caches)]
  /\ UNCHANGED <<pageVars, caches, inflight, served>>

\* One caches.delete(cacheName) completes.
CacheDeleted ==
  \E name \in worker.deleting :
    /\ caches' = Del(caches, name)
    /\ worker' = [worker EXCEPT !.deleting = @ \ {name}, !.deleted = @ \cup {name}]
    /\ UNCHANGED <<pageVars, inflight, served>>

\* Promise.all of the deletes resolves: the worker is active and gets the fetch
\* events of its pages.
Activated ==
  /\ worker.state = "activating"
  /\ worker.deleting = {}
  /\ worker' = [worker EXCEPT !.state = "activated"]
  /\ UNCHANGED <<pageVars, caches, inflight, served>>

\* A fetch event. For a method other than GET the handler returns without
\* respondWith and the browser fetches as if there were no worker.
FetchEvent ==
  \E method \in Methods, url \in Urls :
    /\ worker.state = "activated"
    /\ Len(inflight) < MaxRequests
    /\ IF method # "GET"
       THEN /\ \E r \in NetworkResults(url) :
                 served' = [method |-> method, url |-> url, response |-> r,
                            from |-> "browser"]
            /\ UNCHANGED inflight
       ELSE /\ inflight' = Append(inflight, [method |-> method, url |-> url,
                                             stage |-> "match", response |-> <<>>])
            /\ UNCHANGED served
    /\ UNCHANGED <<pageVars, worker, caches>>

\* caches.match(event.request) resolves: a cached response is the answer,
\* otherwise fetch(event.request) is called.
CacheMatchedAt(i) ==
    LET e == inflight[i]
        hit == CachesMatch(caches, e.url)
    IN  /\ e.stage = "match"
        /\ IF hit # <<>>
           THEN /\ served' = [method |-> e.method, url |-> e.url, response |-> hit,
                              from |-> "cache"]
                /\ inflight' = DropAt(inflight, i)
           ELSE /\ inflight' = [inflight EXCEPT ![i].stage = "fetch"]
                /\ UNCHANGED served
        /\ UNCHANGED <<pageVars, worker, caches>>

CacheMatched == \E i \in 1..Len(inflight) : CacheMatchedAt(i)

\* fetch(event.request) settles: the response is the answer (a rejection is a
\* network error for the page); a cacheable one is cloned and cache.put is
\* started, outside respondWith.
FetchDoneAt(i) ==
    LET e == inflight[i] IN
    /\ e.stage = "fetch"
    /\ \E r \in NetworkResults(e.url) :
         /\ served' = [method |-> e.method, url |-> e.url, response |-> r,
                       from |-> "network"]
         /\ inflight' = IF r # <<>> /\ Cacheable(r[1])
                        THEN [inflight EXCEPT ![i].stage = "put", ![i].response = r]
                        ELSE DropAt(inflight, i)
    /\ UNCHANGED <<pageVars, worker, caches>>

FetchDone == \E i \in 1..Len(inflight) : FetchDoneAt(i)

\* caches.open(CACHE_NAME) and cache.put(event.request, responseToCache) complete.
CachePutDone ==
  \E i \in 1..Len(inflight) :
    LET e == inflight[i] IN
    /\ e.stage = "put"
    /\ caches' = CachePut(caches, e.url, e.response[1])
    /\ inflight' = DropAt(inflight, i)
    /\ UNCHANGED <<pageVars, worker, served>>

\* The browser stops the worker when no event is being answered; a cache.put
\* still outstanding is not waited for (it is not passed to waitUntil).
WorkerStopped ==
  /\ inflight # <<>>
  /\ \A i \in 1..Len(inflight) : inflight[i].stage = "put"
  /\ inflight' = <<>>
  /\ UNCHANGED <<pageVars, worker, caches, served>>

\* ------------------------------------------------------------ specifications
\* Every handler over a first-run database.
Next ==
  \/ SaveProduct
  \/ EditProductStock
  \/ DeleteProduct
  \/ SaveSupplier
  \/ DeleteSupplier
  \/ SupplierCountDone
  \/ SupplierDeleteDone
  \/ BackupData
  \/ RestoreData
  \/ RestoreCleared
  \/ RestoreStore
  \/ ShowCashierPage
  \/ AddToCart
  \/ IncreaseQuantity
  \/ DecreaseQuantity
  \/ UpdateQuantity
  \/ RemoveFromCart
  \/ ClearCart
  \/ ToggleDiscount
  \/ SetDiscountValue
  \/ ToggleTax
  \/ TaxRateLoaded
  \/ SetAmountReceived
  \/ FormatCurrencyDone
  \/ ProcessPayment
  \/ AddRecordDone
  \/ GetRecordDone
  \/ UpdateRecordDone
  \/ GenerateReport
  \/ SaveFaultyProduct
  \/ EditProductPrice
  \/ ReloadPage
  \/ SeedGetDone
  \/ SeedAddDone
  \/ SaveStoreSettings
  \/ SaveReceiptSettings
  \/ Tick
  \/ ProcessPaymentAgain
  \/ RestoreUnparsed
  \/ ClickRowButton
  \/ LoadDashboard
  \/ TodaySalesDone
  \/ TodaySalesFormatted
  \/ ProductCountDone
  \/ Install
  \/ Activate
  \/ CacheDeleted
  \/ Activated
  \/ FetchEvent
  \/ CacheMatched
  \/ FetchDone
  \/ CachePutDone
  \/ WorkerStopped

Spec == Init /\ [][Next]_vars

\* A later run of the page: the database holds two products saved earlier.
StoredProduct(id, code, stock) ==
  [id |-> id, code |-> code, name |-> "Teh", category |-> "Minuman", price |-> 14,
   cost |-> 10, stock |-> stock, minStock |-> 0, supplierId |-> Null,
   updatedAt |-> Date(0)]

StoredCatalogs ==
  {[id \in {1, 2} |-> StoredProduct(id, IF id = 1 THEN "A" ELSE "B",
                                    IF id = 1 THEN s1 ELSE s2)] :
     s1 \in 0..MaxStock, s2 \in 0..MaxStock}

InitStored ==
  /\ products \in StoredCatalogs
  /\ suppliers = Empty
  /\ transactions = Empty
  /\ settings = DefaultSettings
  /\ nextKey = [products |-> 3, suppliers |-> 1, transactions |-> 1]
  /\ cashier = Empty
  /\ PageLoaded

\* The cart handlers, with product edits and reloads of the cashier list.
CartNext ==
  \/ EditProductStock
  \/ ShowCashierPage
  \/ AddToCart
  \/ IncreaseQuantity
  \/ DecreaseQuantity
  \/ UpdateQuantity
  \/ RemoveFromCart
  \/ ClearCart
  \/ FormatCurrencyDone

SpecCart == InitStored /\ [][CartNext]_vars

\* The commit of a checkout: filling the cart, payment and the storage callbacks
\* of processPayment, with cart changes and product edits in between.
InitCommit ==
  /\ products \in StoredCatalogs
  /\ products[1].stock = MaxStock
  /\ products[2].stock = 1
  /\ suppliers = Empty
  /\ transactions = Empty
  /\ settings = DefaultSettings
  /\ nextKey = [products |-> 3, suppliers |-> 1, transactions |-> 1]
  /\ cashier = loadCashierProducts(products)
  /\ PageLoaded

\* A stock correction made between two customers.
EditWhileIdle == cart = <<>> /\ commits = <<>> /\ EditProductStock

CommitNext ==
  \/ EditWhileIdle
  \/ AddToCart
  \/ DecreaseQuantity
  \/ SetAmountReceived
  \/ FormatCurrencyDone
  \/ ProcessPayment
  \/ AddRecordDone
  \/ GetRecordDone
  \/ UpdateRecordDone

SpecCommit == InitCommit /\ [][CommitNext]_vars

\* The payment check: one product on sale, the discount and tax controls, the
\* asynchronous refresh of the displayed total, payment and its callbacks.
InitPay == InitStored /\ products[1].stock = MaxStock /\ products[2].stock = 0

PayNext ==
  \/ ShowCashierPage
  \/ AddToCart
  \/ ToggleDiscount
  \/ SetDiscountValue
  \/ ToggleTax
  \/ TaxRateLoaded
  \/ SetAmountReceived
  \/ FormatCurrencyDone
  \/ ProcessPayment
  \/ AddRecordDone
  \/ GetRecordDone
  \/ UpdateRecordDone

SpecPay == InitPay /\ [][PayNext]_vars

\* addToCart called with any stored product (the rendered cashier list only
\* offers the products in stock; the function does not rely on it).
CallAddToCart ==
  /\ CanRefresh
  /\ \E id \in DOMAIN products : CartStep(addToCart(cart, products[id]))

AddToCartNext ==
  \/ CallAddToCart
  \/ RemoveFromCart
  \/ FormatCurrencyDone

SpecAddToCart == InitStored /\ [][AddToCartNext]_vars

\* calculateTotal on any cart and any state of the discount and tax controls.
TotalPrices == {14, 10000}
TotalPercents == {-10, 0, 10, 50}

TotalLine(id, price, quantity) ==
  [id |-> id, code |-> IF id = 1 THEN "A" ELSE "B", name |-> "Teh", price |-> price,
   quantity |-> quantity, stock |-> MaxStock]

TotalCarts ==
  {<<TotalLine(1, p, q)>> : p \in TotalPrices, q \in 1..MaxStock}
  \cup {<<TotalLine(1, p, q), TotalLine(2, r, n)>> :
          p \in TotalPrices, q \in 1..MaxStock, r \in TotalPrices, n \in 1..MaxStock}

TotalDoms ==
  {[InitialDom EXCEPT !.discount_toggle = IsNum(d), !.discount_value = d,
                      !.tax_toggle = IsNum(t), !.tax_value = t] :
     d \in {NaN} \cup {Num(x) : x \in TotalPercents},
     t \in {NaN} \cup {Num(x) : x \in TotalPercents}}

InitTotal ==
  /\ products = Empty
  /\ suppliers = Empty
  /\ transactions = Empty
  /\ settings = DefaultSettings
  /\ nextKey = [products |-> 1, suppliers |-> 1, transactions |-> 1]
  /\ cashier = Empty
  /\ NothingPending
  /\ cart \in TotalCarts
  /\ dom \in TotalDoms

\* A call of calculateTotal(): its formatCurrency(total) is left pending.
CalculateTotal ==
  /\ Len(pendingFmt) < MaxPending
  /\ pendingFmt' = Append(pendingFmt, calculateTotalNow(cart, dom))
  /\ UNCHANGED <<dbVars, cart, cashier, dom, pendingTax, commits, pendingDel, audit,
                 backup, toast, formError, clock, seeding, dashboard, swVars, click>>

TotalNext ==
  \/ CalculateTotal
  \/ FormatCurrencyDone

SpecTotal == InitTotal /\ [][TotalNext]_vars

\* The catalogue pages over a first-run database: the product and supplier
\* forms and the deletions.
CatalogNext ==
  \/ SaveProduct
  \/ DeleteProduct
  \/ SaveSupplier
  \/ DeleteSupplier
  \/ SupplierCountDone
  \/ SupplierDeleteDone

SpecCatalog == Init /\ [][CatalogNext]_vars

\* Backup and restore over any stored dataset.
StoredSupplier(id) ==
  [id |-> id, code |-> "A", name |-> "Teh", contact |-> "Budi", address |-> "Jl. Raya",
   email |-> Null, phone |-> Null, updatedAt |-> Date(0), createdAt |-> Date(0)]

\* A transaction written by processPayment on day `day` for one unit of product 1.
StoredTransaction(id, day) ==
  [id |-> id] @@
  TransactionOf(addToCart(<<>>, StoredProduct(1, "A", MaxStock)).cart,
                [InitialDom EXCEPT !.total_amount = 14, !.amount_received = Num(15),
                                   !.current_invoice = generateInvoiceNumber(id)],
                day)

StoredLedgers ==
  UNION {[ids -> 0..MaxClock] : ids \in SUBSET (1..2)}

InitBackup ==
  /\ products \in {Empty} \cup StoredCatalogs
  /\ suppliers \in {Empty, [id \in {1} |-> StoredSupplier(id)]}
  /\ \E days \in StoredLedgers :
       transactions = [id \in DOMAIN days |-> StoredTransaction(id, days[id])]
  /\ settings = DefaultSettings
  /\ nextKey = [products |-> 3, suppliers |-> 2, transactions |-> 3]
  /\ cashier = Empty
  /\ PageLoaded

BackupNext ==
  \/ BackupData
  \/ RestoreData
  \/ RestoreCleared
  \/ RestoreStore

SpecBackup == InitBackup /\ [][BackupNext]_vars

\* A cashier session: the page is loaded on a fresh database or on one that
\* holds the first sale of an earlier page load, or the page has just made its
\* first sale. That sale carries the invoice text the document is loaded with,
\* because initApp fails in loadDashboard before it reaches
\* generateInvoiceNumberDisplay.
EarlierSale ==
  [id |-> 1] @@
  TransactionOf(addToCart(<<>>, StoredProduct(1, "A", MaxStock)).cart,
                [InitialDom EXCEPT !.total_amount = 14, !.amount_received = Num(15)],
                0 - 1)

\* The page right after that first sale, its Promise.all callback and the
\* formatCurrency of the emptied cart having run.
AfterFirstSale ==
  /\ transactions = [id \in {1} |-> EarlierSale]
  /\ cart = <<>>
  /\ dom = ClearedDom(InitialDom, 0 - 1)
  /\ pendingFmt = <<>>
  /\ pendingTax = 0
  /\ commits = <<>>
  /\ pendingDel = <<>>
  /\ backup = NoBackup
  /\ toast = "Pembayaran berhasil diproses"
  /\ formError = {}
  /\ clock = 0
  /\ seeding = NoSeeding
  /\ dashboard = loadDashboard(InitialDashboard)
  /\ click = NoClick
  /\ audit = <<>>
  /\ WorkerIdle

InitSession ==
  /\ products \in StoredCatalogs
  /\ products[1].stock = MaxStock
  /\ products[2].stock = 1
  /\ suppliers = Empty
  /\ settings = DefaultSettings
  /\ cashier = loadCashierProducts(products)
  /\ \/ transactions \in {Empty, [id \in {1} |-> EarlierSale]} /\ PageLoaded
     \/ AfterFirstSale
  /\ nextKey = [products |-> 3, suppliers |-> 1,
                transactions |-> Cardinality(DOMAIN transactions) + 1]

SessionNext ==
  \/ AddToCart
  \/ SetAmountReceived
  \/ FormatCurrencyDone
  \/ ProcessPayment
  \/ AddRecordDone
  \/ GetRecordDone
  \/ UpdateRecordDone
  \/ Tick

SpecSession == InitSession /\ [][SessionNext]_vars

\* The same session with every storage request and every formatCurrency promise
\* completing once issued (IndexedDB and the promise queue run their callbacks).
SpecLive ==
  /\ SpecSession
  /\ WF_vars(FormatCurrencyDone)
  /\ WF_vars(AddRecordDone)
  /\ WF_vars(GetRecordDone)
  /\ WF_vars(UpdateRecordDone)

\* The quantity input of a cart line: lines are added from the cashier list and
\* their quantity is typed in.
QuantityNext ==
  \/ ShowCashierPage
  \/ AddToCart
  \/ UpdateQuantity
  \/ FormatCurrencyDone

SpecQuantity == InitStored /\ [][QuantityNext]_vars

\* The report page over a ledger of up to two sales of one or two units made
\* during three days, before and after a backup is restored.
StoredSale(id, at, quantity) ==
  [id |-> id] @@
  TransactionOf([addToCart(<<>>, StoredProduct(1, "A", MaxStock)).cart
                   EXCEPT ![1].quantity = quantity],
                [InitialDom EXCEPT !.total_amount = 14 * quantity,
                                   !.amount_received = Num(28),
                                   !.current_invoice = generateInvoiceNumber(id)],
                at)

SaleTimes == 0..(DayLength * Cardinality(ReportDays) - 1)

InitReport ==
  /\ products \in StoredCatalogs
  /\ products[1].stock = MaxStock
  /\ products[2].stock = 1
  /\ suppliers = Empty
  /\ \E ids \in SUBSET (1..2) :
       \E at \in [ids -> SaleTimes], quantity \in [ids -> 1..2] :
         transactions = [id \in ids |-> StoredSale(id, at[id], quantity[id])]
  /\ settings = DefaultSettings
  /\ nextKey = [products |-> 3, suppliers |-> 1, transactions |-> 3]
  /\ cashier = Empty
  /\ PageLoaded

ReportNext ==
  \/ GenerateReport
  \/ BackupData
  \/ RestoreData
  \/ RestoreCleared
  \/ RestoreStore

SpecReport == InitReport /\ [][ReportNext]_vars

\* The settings store from the first page load on: the seeding of the defaults,
\* the two settings forms and further page loads.
InitSettings ==
  /\ products = Empty
  /\ suppliers = Empty
  /\ transactions = Empty
  /\ settings = Empty
  /\ nextKey = [products |-> 1, suppliers |-> 1, transactions |-> 1]
  /\ cashier = Empty
  /\ cart = <<>>
  /\ dom = InitialDom
  /\ pendingFmt = <<>>
  /\ pendingTax = 0
  /\ commits = <<>>
  /\ pendingDel = <<>>
  /\ backup = NoBackup
  /\ toast = "Gagal memuat aplikasi"
  /\ formError = {}
  /\ clock = 0
  /\ seeding = [id \in DOMAIN DefaultSettings |-> "get"]
  /\ dashboard = loadDashboard(InitialDashboard)
  /\ click = NoClick
  /\ audit = <<>>
  /\ WorkerIdle

SettingsNext ==
  \/ ReloadPage
  \/ SeedGetDone
  \/ SeedAddDone
  \/ SaveStoreSettings
  \/ SaveReceiptSettings

SpecSettings == InitSettings /\ [][SettingsNext]_vars

\* The ledger under everything else the page does: the session after its first
\* sale, with a further sale, cart changes, price changes, deletions of products
\* and suppliers and a settings save.
InitLedger ==
  /\ products \in StoredCatalogs
  /\ products[1].stock = MaxStock
  /\ products[2].stock = 0
  /\ suppliers = [id \in {1} |-> StoredSupplier(id)]
  /\ settings = DefaultSettings
  /\ cashier = loadCashierProducts(products)
  /\ AfterFirstSale
  /\ nextKey = [products |-> 3, suppliers |-> 2,
                transactions |-> Cardinality(DOMAIN transactions) + 1]

LedgerNext ==
  \/ AddToCart
  \/ SetAmountReceived
  \/ FormatCurrencyDone
  \/ ProcessPayment
  \/ AddRecordDone
  \/ GetRecordDone
  \/ UpdateRecordDone
  \/ EditProductPrice
  \/ DeleteProduct
  \/ DeleteSupplier
  \/ SupplierCountDone
  \/ SupplierDeleteDone
  \/ SaveReceiptSettings

SpecLedger == InitLedger /\ [][LedgerNext]_vars

\* The product form over a first-run database, submitted complete or with
\* fields left empty or negative.
ProductFormNext ==
  \/ SaveProduct
  \/ SaveFaultyProduct

SpecProductForm == Init /\ [][ProductFormNext]_vars

\* The cashier session with products deleted on the products page meanwhile.
SaleNext ==
  \/ SessionNext
  \/ DeleteProduct

SpecSale == InitSession /\ [][SaleNext]_vars

\* A double click on process-payment: the cashier fills the cart and enters the
\* amount, then clicks, and clicks again while the callbacks are outstanding.
FillCart == commits = <<>> /\ AddToCart

EnterAmount == commits = <<>> /\ SetAmountReceived

DoubleClickNext ==
  \/ FillCart
  \/ EnterAmount
  \/ FormatCurrencyDone
  \/ ProcessPayment
  \/ ProcessPaymentAgain
  \/ AddRecordDone
  \/ GetRecordDone
  \/ UpdateRecordDone
  \/ Tick

SpecDoubleClick == InitSession /\ [][DoubleClickNext]_vars

\* The stock updates of a checkout with the products page used meanwhile: while
\* the callbacks are outstanding, the stock or the price of a product is saved
\* from its form.
EditDuringCommit == commits # <<>> /\ (EditProductStock \/ EditProductPrice)

RaceNext ==
  \/ FillCart
  \/ EnterAmount
  \/ FormatCurrencyDone
  \/ ProcessPayment
  \/ AddRecordDone
  \/ GetRecordDone
  \/ UpdateRecordDone
  \/ EditDuringCommit

SpecRace == InitCommit /\ [][RaceNext]_vars

\* The dashboard over a database with sales: one sale of up to TopCount + 1
\* products, of which only products 1 and 2 still have a record, and possibly a
\* second sale; the requests of initApp's loadDashboard are outstanding.
SoldProducts == 1..(TopCount + 1)

SoldLine(id, quantity) ==
  [id |-> id, code |-> "A", name |-> "Teh", price |-> 14, quantity |-> quantity,
   stock |-> MaxStock]

RankedSale(key, q) ==
  LET ids == SortBySales({id \in DOMAIN q : q[id] > 0}, [id \in DOMAIN q |-> 0])
      lines == [i \in 1..Len(ids) |-> SoldLine(ids[i], q[ids[i]])]
  IN  [id |-> key] @@
      TransactionOf(lines,
                    [InitialDom EXCEPT !.total_amount = Subtotal(lines) \div Scale,
                                       !.amount_received = Num(Subtotal(lines) \div Scale),
                                       !.current_invoice = generateInvoiceNumber(0 - key)],
                    0)

InitDashboard ==
  /\ products \in StoredCatalogs
  /\ products[1].stock = MaxStock
  /\ products[2].stock = 1
  /\ suppliers = Empty
  /\ \E q \in [SoldProducts -> 0..2] :
       \/ transactions = [key \in {1} |-> RankedSale(1, q)]
       \/ transactions = [key \in {1, 2} |->
                            IF key = 1 THEN RankedSale(1, q)
                            ELSE RankedSale(2, [id \in {2} |-> 2])]
  /\ settings = DefaultSettings
  /\ nextKey = [products |-> 3, suppliers |-> 1, transactions |-> 3]
  /\ cashier = Empty
  /\ PageLoaded

DashboardNext ==
  \/ LoadDashboard
  \/ TodaySalesDone
  \/ TodaySalesFormatted
  \/ ProductCountDone

SpecDashboard == InitDashboard /\ [][DashboardNext]_vars

\* The cache worker from its registration on: the origin holds no cache, or the
\* cache of an earlier version, or also a cache CACHE_NAME of an earlier install.
OldCache == [url \in {"/app.js"} |-> Response(200, "basic", 1)]

InitWorker ==
  /\ products = Empty
  /\ suppliers = Empty
  /\ transactions = Empty
  /\ settings = DefaultSettings
  /\ nextKey = [products |-> 1, suppliers |-> 1, transactions |-> 1]
  /\ cashier = Empty
  /\ cart = <<>>
  /\ dom = InitialDom
  /\ NoCallbacks
  /\ worker = [state |-> "installing", deleting |-> {}, deleted |-> {}]
  /\ caches \in {Empty,
                 [name \in OldCacheNames |-> OldCache],
                 [name \in OldCacheNames \cup {CACHE_NAME} |-> OldCache]}
  /\ inflight = <<>>
  /\ served = NoResponse

WorkerNext ==
  \/ Install
  \/ Activate
  \/ CacheDeleted
  \/ Activated
  \/ FetchEvent
  \/ CacheMatched
  \/ FetchDone
  \/ CachePutDone
  \/ WorkerStopped

SpecWorker == InitWorker /\ [][WorkerNext]_vars

\* The start of the page on a database with two products: initApp, the seeding
\* of the settings it starts, and a first checkout; the page is reloaded at will.
InitStartup ==
  /\ products \in StoredCatalogs
  /\ products[1].stock = MaxStock
  /\ products[2].stock = 1
  /\ suppliers = Empty
  /\ transactions = Empty
  /\ settings \in {Empty, DefaultSettings}
  /\ nextKey = [products |-> 3, suppliers |-> 1, transactions |-> 1]
  /\ cashier = Empty
  /\ cart = <<>>
  /\ dom = InitialDom
  /\ pendingFmt = <<>>
  /\ pendingTax = 0
  /\ commits = <<>>
  /\ pendingDel = <<>>
  /\ backup = NoBackup
  /\ toast = "Gagal memuat aplikasi"
  /\ formError = {}
  /\ clock = 0
  /\ seeding = [id \in DOMAIN DefaultSettings |-> "get"]
  /\ dashboard = loadDashboard(InitialDashboard)
  /\ click = NoClick
  /\ audit = <<>>
  /\ WorkerIdle

StartupNext ==
  \/ ReloadPage
  \/ SeedGetDone
  \/ SeedAddDone
  \/ ShowCashierPage
  \/ AddToCart
  \/ ProcessPayment
  \/ AddRecordDone
  \/ GetRecordDone
  \/ UpdateRecordDone

SpecStartup == InitStartup /\ [][StartupNext]_vars

\* Restoring from any file the user chooses: a backup of the stored data, a
\* backup edited so that two products carry one code, or a file that is not JSON.
DuplicateCodeBackup ==
  [products |-> [id \in {1, 2} |-> JsonRecord(StoredProduct(id, "A", 1))],
   transactions |-> Empty, suppliers |-> Empty, settings |-> Empty]

RestoreFiles == {JsonBackup(Stores), DuplicateCodeBackup, NotJson}

\* The change event of the restore file input: a file is chosen.
ChooseRestoreFile ==
  \E file \in RestoreFiles :
    /\ backup.stage = "none"
    /\ backup' = [stage |-> "saved", file |-> file, orig |-> Stores, left |-> {}]
    /\ UNCHANGED <<dbVars, cart, cashier, dom, pendingFmt, pendingTax, commits,
                   pendingDel, audit, toast, formError, clock, seeding, dashboard,
                   swVars, click>>

RestoreNext ==
  \/ ChooseRestoreFile
  \/ RestoreData
  \/ RestoreUnparsed
  \/ RestoreCleared
  \/ RestoreStore

SpecRestore == InitBackup /\ [][RestoreNext]_vars

\* Every request of a restore completes or aborts, and every callback runs.
SpecRestoreLive ==
  /\ SpecRestore
  /\ WF_vars(RestoreUnparsed)
  /\ WF_vars(RestoreCleared)
  /\ WF_vars(RestoreStore)

\* The product and supplier tables over a stored dataset: rows are clicked and
\* a product's stock is edited in the form an edit click opened.
RowButtonsNext ==
  \/ ClickRowButton
  \/ EditProductStock
  \/ SaveFaultyProduct

SpecRowButtons == InitBackup /\ [][RowButtonsNext]_vars

\* ------------------------------------------------------------------ claims
\* The checkouts whose transaction has been written: the outstanding ones past
\* their addRecord and the completed ones.
Persisted ==
  {[txn |-> commits[i].txn, due |-> commits[i].due] :
     i \in {j \in 1..Len(commits) : commits[j].phase = "stock"}}
  \cup {[txn |-> audit[i].txn, due |-> audit[i].due] : i \in 1..Len(audit)}

\* C1: no transaction is written for a checkout whose amount received was less
\* than the total of the cart (subtotal less the enabled discount plus the
\* enabled tax) at the click.
C1_NoUnderpaidCheckout == \A c \in Persisted : c.txn.amountReceived >= c.due

\* The quantity the cart c holds of product id (0 when it has no line).
LineQuantity(c, id) == LET i == Find(c, id) IN IF i = 0 THEN 0 ELSE c[i].quantity

\* What a completed checkout a did: one transaction more, whose items are the
\* cart lines at the click; every product's stock less the cart's quantity of it
\* and nothing else of the product changed; the cart empty.
CommitEffect(a) ==
  /\ \E k \in DOMAIN a.post.transactions \ DOMAIN a.pre.transactions :
       /\ DOMAIN a.post.transactions = DOMAIN a.pre.transactions \cup {k}
       /\ a.post.transactions[k].items = ItemsOf(a.pre.cart)
  /\ \A k \in DOMAIN a.pre.transactions : a.post.transactions[k] = a.pre.transactions[k]
  /\ DOMAIN a.post.products = DOMAIN a.pre.products
  /\ \A id \in DOMAIN a.pre.products :
       a.post.products[id] =
         [a.pre.products[id] EXCEPT !.stock = @ - LineQuantity(a.pre.cart, id)]
  /\ a.post.cart = <<>>

C3_StockNonNegative == \A id \in DOMAIN products : products[id].stock >= 0

\* C4: every cart line has a quantity of at least 1 and at most the stock
\* snapshot the line holds.
C4_QuantityWithinSnapshot ==
  \A i \in 1..Len(cart) : 1 <= cart[i].quantity /\ cart[i].quantity <= cart[i].stock

\* The two refusals of addToCart for product p: it has a line whose quantity
\* equals its stock, or it has no line and its stock is 0.
RefusedAdd(c, p) ==
  LET i == Find(c, p.id)
  IN  IF i # 0 THEN c[i].quantity = p.stock ELSE p.stock = 0

\* C5: an addToCart that is refused, for a product in the cart at a quantity
\* equal to its stock (message InsufficientStock) or for a product not in the
\* cart with stock 0 (message OutOfStock), leaves the cart as it was.
C5_RefusedAddKeepsCart ==
  [][\A id \in DOMAIN products :
       (RefusedAdd(cart, products[id]) /\ CartStep(addToCart(cart, products[id])))
         => /\ cart' = cart
            /\ toast' = IF Find(cart, id) # 0 THEN "Stok produk tidak mencukupi"
                        ELSE "Stok produk habis"]_vars

\* C5 witness: with stock 1, the second add of the product was refused and the
\* cart holds its one line with quantity 1.
C5_Witness ==
  /\ toast = "Stok produk tidak mencukupi"
  /\ Len(cart) = 1
  /\ cart[1].quantity = 1
  /\ products[cart[1].id].stock = 1

\* The percentage of a control: its value when the toggle is on, else 0.
PercentOf(on, value) == IF on /\ IsNum(value) THEN Val(value) ELSE 0

\* subtotal * (1 - discount/100) * (1 + tax/100), in 1/Scale.
TotalBy(c, discount, tax) ==
  SumSeq([i \in 1..Len(c) |-> c[i].price * c[i].quantity]) * (100 - discount) * (100 + tax)

\* An entered percentage below 0 counts as none.
AtLeastZero(n) == IF n < 0 THEN 0 ELSE n

\* C6: for percentages of at least 0, the total calculateTotal computes is
\* subtotal * (1 - discount/100) * (1 + tax/100), a factor being left out when
\* its toggle is off, the tax taken on the amount after discount; a percentage
\* below 0 is not applied.
C6_TotalFormula ==
  \A i \in 1..Len(pendingFmt) :
    pendingFmt[i] = TotalBy(cart, AtLeastZero(PercentOf(dom.discount_toggle, dom.discount_value)),
                            AtLeastZero(PercentOf(dom.tax_toggle, dom.tax_value)))

\* C6 as stated, for every percentage entered: the total calculateTotal computes
\* is subtotal * (1 - discount/100) * (1 + tax/100), a factor being left out
\* when its toggle is off.
C6_EveryPercentage ==
  \A i \in 1..Len(pendingFmt) :
    pendingFmt[i] = TotalBy(cart, PercentOf(dom.discount_toggle, dom.discount_value),
                            PercentOf(dom.tax_toggle, dom.tax_value))

\* C6 witness: one line of price 10000 and quantity 2 with discount 10 and tax
\* 10 was computed and displayed as 19800.
C6_Witness ==
  /\ Len(cart) = 1
  /\ cart[1].price = 10000 /\ cart[1].quantity = 2
  /\ dom.discount_toggle /\ dom.discount_value = Num(10)
  /\ dom.tax_toggle /\ dom.tax_value = Num(10)
  /\ dom.total_amount = 19800

\* C7: every stored transaction has total = subtotal - discount + tax and
\* change = amountReceived - total >= 0, its subtotal being the sum of price *
\* quantity over its items.
C7_TransactionArithmetic ==
  \A k \in DOMAIN transactions :
    LET t == transactions[k] IN
    /\ t.subtotal = Scale * SumSeq([i \in 1..Len(t.items) |->
                                      t.items[i].price * t.items[i].quantity])
    /\ IsNum(t.discount) /\ IsNum(t.tax)
    /\ t.total = t.subtotal - Val(t.discount) + Val(t.tax)
    /\ t.change = t.amountReceived - t.total
    /\ t.change >= 0

\* No two records of a store share a code.
NoSharedCode(store) ==
  \A j, k \in DOMAIN store : j # k => store[j].code # store[k].code

\* C8: before and after every step no two products and no two suppliers share
\* a code; creating a product or a supplier with the code of an existing one is
\* rejected by the unique index (the code's inline error shows) and leaves the
\* store as it was.
C8_UniqueCodes ==
  [][/\ NoSharedCode(products) /\ NoSharedCode(products')
     /\ NoSharedCode(suppliers) /\ NoSharedCode(suppliers')
     /\ \A form \in ProductForms :
          (DuplicateCreate(products, form) /\ validateProductForm(form)
             /\ saveProduct(form))
            => products' = products /\ formError' = {"code-error"}
     /\ \A form \in SupplierForms :
          (DuplicateCreate(suppliers, form) /\ validateSupplierForm(form)
             /\ saveSupplier(form))
            => suppliers' = suppliers /\ formError' = {"supplier-code-error"}]_vars

\* C8 witness: a second supplier with the code of the stored one was refused
\* while a product is stored too.
C8_Witness ==
  /\ formError = {"supplier-code-error"}
  /\ Cardinality(DOMAIN suppliers) = 1
  /\ products # Empty

\* C9: a confirmed deleteSupplier goes on to delete the supplier if and only if
\* no product has that supplier selected.
C9_RefusesIffSelected ==
  \A i \in 1..Len(pendingDel) :
    pendingDel[i].st # "count" => (pendingDel[i].st = "delete" <=> ~pendingDel[i].selected)

\* C10: once a backup has been restored, the four stores hold what they held
\* when the backup was made, and every date-range query on the transactions
\* finds the same transactions.
C10_RoundTrip ==
  backup.stage = "restored" =>
    /\ Stores = backup.orig
    /\ \A from \in 0..MaxClock, to \in 0..MaxClock :
         TransactionsByDate(transactions, from, to)
           = TransactionsByDate(backup.orig.transactions, from, to)

\* C11: with storage callbacks firing, a processPayment that passed its checks
\* on a non-empty cart with an amount of at least the cart's total eventually
\* succeeds: the transaction is recorded, the cart is cleared and nothing of the
\* checkout is left outstanding.
PaidInFull(c) == c.due <= c.txn.amountReceived

C11_CheckoutSucceeds ==
  (\E i \in 1..Len(commits) : commits[i].phase = "add" /\ PaidInFull(commits[i]))
    ~> (Recorded # {} /\ cart = <<>> /\ commits = <<>>)

\* The cart lines of the other products.
OtherLines(c, id) == SelectSeq(c, LAMBDA l : l.id # id)

InRange(store, from, to, zone) ==
  {k \in DOMAIN store :
     /\ DayLength * from - zone <= store[k].date.v
     /\ store[k].date.v <= DayLength * to - zone + DayLength - 1}

\* C13: a daily or custom report shows exactly the transactions dated within
\* its days, the sum of their totals, their number and the sum of their item
\* quantities (nothing and three zeros when there is none).
C13_ReportOfRange ==
  [][dom'.report # dom.report =>
       LET r == dom'.report[1]
           due == InRange(transactions, r.from, r.to, r.zone)
       IN  /\ r.rows = due
           /\ r.count = Cardinality(due)
           /\ r.totalSales = SumOver(due, [k \in due |-> transactions[k].total])
           /\ r.totalItems = SumOver(due, [k \in due |->
                 SumSeq([i \in 1..Len(transactions[k].items) |->
                           transactions[k].items[i].quantity])])]_vars

NoSharedInvoice ==
  \A j \in DOMAIN transactions, k \in DOMAIN transactions :
    j # k => transactions[j].invoice # transactions[k].invoice

\* The transaction write about to complete carries a recorded invoice.
InvoiceTaken ==
  /\ \E i \in 1..Len(commits) : commits[i].phase = "add"
  /\ \E k \in DOMAIN transactions :
       transactions[k].invoice = commits[NextAdd].txn.invoice

\* C14: no two recorded transactions have the same invoice; and a checkout whose
\* invoice a recorded transaction already has is rejected when its transaction
\* is written: the generic failure is shown, no transaction is written, no
\* stock changes and none is left to change, and the cart stays as it is.
C14_UniqueInvoice ==
  /\ []NoSharedInvoice
  /\ [][(InvoiceTaken /\ AddRecordDone)
          => /\ toast' = "Gagal memproses pembayaran"
             /\ transactions' = transactions
             /\ products' = products
             /\ cart' = cart
             /\ commits' = DropAt(commits, NextAdd)]_vars

\* C14 witness: a checkout was rejected for its invoice: the failure shows, the
\* cart is still filled and the invoice on the page is a recorded one.
C14_Witness ==
  /\ toast = "Gagal memproses pembayaran"
  /\ cart # <<>>
  /\ commits = <<>>
  /\ \E k \in DOMAIN transactions : transactions[k].invoice = dom.current_invoice

\* C16: a step of the settings seeding leaves every settings record that exists
\* as it is and writes at most the default of an id that had no record; and the
\* store holds at most one record per id, the one stored under that id.
C16_SeedingKeepsSettings ==
  /\ [](\A id \in DOMAIN settings : id \in DOMAIN DefaultSettings /\ settings[id].id = id)
  /\ [][(SeedGetDone \/ SeedAddDone)
          => /\ \A id \in DOMAIN settings :
                  id \in DOMAIN settings' /\ settings'[id] = settings[id]
             /\ \A id \in DOMAIN settings' \ DOMAIN settings :
                  settings'[id] = DefaultSettings[id]]_vars

\* C16 witness: the store form was saved after the seeding had found no 'store'
\* record and before its add of the default ran, the tax rate being seeded
\* already.
C16_Witness ==
  /\ seeding["store"] = "add"
  /\ "store" \in DOMAIN settings
  /\ settings["store"].name = "Toko Budi"
  /\ seeding["taxRate"] = "idle"
  /\ "taxRate" \in DOMAIN settings

\* C15: no step of the page other than a restore changes or removes a recorded
\* transaction: product edits and price changes, deletions of products and
\* suppliers, cart operations, further checkouts and settings saves leave every
\* record of the ledger as it was written.
C15_LedgerKept ==
  [][backup.stage \notin {"reading", "restoring", "stuck"}
       => \A k \in DOMAIN transactions :
            k \in DOMAIN transactions' /\ transactions'[k] = transactions[k]]_vars

\* C15 witness: after the first sale its product's price was changed and a
\* second sale was recorded; the first sale still shows the price it was sold at.
C15_Witness ==
  /\ Cardinality(DOMAIN transactions) = 2
  /\ 1 \in DOMAIN products
  /\ products[1].price # transactions[1].items[1].price

\* C17: updateRecord of a record whose key is not in the store fails and creates
\* no record. (Stated of every stock update of a checkout that is about to be
\* written.)
C17_UpdateOfMissingFails ==
  \A i \in 1..Len(commits) : \A k \in 1..Len(commits[i].lines) :
    LET l == commits[i].lines[k] IN
    (l.st = "put" /\ l.rec[1].id \notin DOMAIN products)
      => LET r == updateRecord(products, l.rec[1], ProductIndexes)
         IN  ~r.ok /\ r.store = products

\* A valid product form whose code another product of the store has.
CodeTaken(form) ==
  /\ validateProductForm(form)
  /\ \E k \in DOMAIN products :
       products[k].code = form.code /\ (IsNum(form.id) => k # Val(form.id))

\* C18: a product form refused by the unique index on the code, whether it
\* creates or updates a product, ends with the inline error of the code field
\* and without a toast (the last message shown stays what it was).
C18_CodeClashInline ==
  [][\A form \in ProductForms :
       (CodeTaken(form) /\ saveProduct(form))
         => /\ "code-error" \in formError'
            /\ toast' = toast]_vars

\* The code, name or category is empty, or one of price, cost, stock and minStock
\* is missing or negative.
Incomplete(form) ==
  \/ form.code = "" \/ form.name = "" \/ form.category = ""
  \/ \E x \in {form.price, form.cost, form.stock, form.minStock} : x = NaN \/ Val(x) < 0

WellFormed(p) ==
  /\ p.code # "" /\ p.name # "" /\ p.category # ""
  /\ p.price >= 0 /\ p.cost >= 0 /\ p.stock >= 0 /\ p.minStock >= 0

\* C19: a product form that fails validation adds and changes no product, so
\* every product the form has written has a code, a name and a category and
\* price, cost, stock and minStock of at least 0.
C19_InvalidFormWritesNothing ==
  /\ [](\A k \in DOMAIN products : WellFormed(products[k]))
  /\ [][\A form \in ProductForms \cup FaultyProductForms :
          (Incomplete(form) /\ saveProduct(form)) => products' = products]_vars

\* C19 witness: with a product stored, a form with a negative price was
\* submitted and refused with the inline price error.
C19_Witness ==
  /\ formError = {"price-error"}
  /\ products # Empty
  /\ \A k \in DOMAIN products : products[k].price = 14

\* A checkout whose transaction is written and one of whose stock updates failed.
Stuck(c) ==
  c.phase = "stock" /\ \E k \in 1..Len(c.lines) : c.lines[k].st = "failed"

\* C20: once the transaction of a checkout is written and a stock update of it
\* has failed, every later step keeps the recorded sales as they are, leaves the
\* stock of the failed line's product alone (a deleted product stays deleted),
\* never runs the checkout's completion (it stays outstanding), keeps the cart
\* filled and keeps the invoice on the page.
C20_NoRollback ==
  [][\A i \in 1..Len(commits) :
       Stuck(commits[i])
         => /\ \A key \in DOMAIN transactions :
                 key \in DOMAIN transactions' /\ transactions'[key] = transactions[key]
            /\ \A k \in 1..Len(commits[i].lines) :
                 LET id == commits[i].lines[k].id IN
                 commits[i].lines[k].st = "failed"
                   => IF id \in DOMAIN products
                      THEN id \in DOMAIN products'
                             => products'[id].stock = products[id].stock
                      ELSE id \notin DOMAIN products'
            /\ i <= Len(commits') /\ Stuck(commits'[i])
            /\ commits'[i].txn = commits[i].txn
            /\ cart' # <<>>
            /\ dom'.current_invoice = dom.current_invoice]_vars

\* C20 witness: a product was deleted after it was put in the cart; the sale is
\* recorded, its stock update failed, the other line's stock is written, and
\* the cart is still filled.
C20_Witness ==
  /\ Len(commits) = 1
  /\ Stuck(commits[1])
  /\ \E k \in 1..Len(commits[1].lines) : commits[1].lines[k].st = "done"
  /\ Recorded # {}
  /\ cart # <<>>

\* The second call of a double click is next to have its addRecord answered: an
\* earlier call on the same cart has written its transaction and is updating
\* the stock.
SecondOfDoubleClick ==
  /\ \E j \in 1..Len(commits) : commits[j].phase = "add"
  /\ \E i \in 1..(NextAdd - 1) :
       /\ commits[i].phase = "stock"
       /\ commits[i].txn.items = commits[NextAdd].txn.items

\* The quantity of product id sold by the transactions recorded during the run.
Sold(id) ==
  SumOver(Recorded, [k \in Recorded |-> ItemQuantity(transactions[k].items, id)])

\* C21 as claimed: the second processPayment call of a double click is not
\* guarded, it commits as the first did: when its addRecord is answered, a
\* second transaction record is written for the cart.
C21_DoubleClickCommitsTwice ==
  [][SecondOfDoubleClick /\ AddRecordDone => transactions' # transactions]_vars

\* C21: of the processPayment calls of a double click on one cart only the first
\* commits. The addRecord of a later call is rejected (the invoice read from the
\* page is the one the first call wrote, and the index on it is unique): no
\* record is written, no stock update is started, the failure toast shows and
\* the cart is kept. At most one checkout is updating the stock at a time, and
\* no product's stock is reduced by more than the recorded sales hold of it.
C21_DoubleClickCommitsOnce ==
  /\ [](/\ Cardinality({i \in 1..Len(commits) : commits[i].phase = "stock"}) <= 1
        /\ \A id \in DOMAIN products :
             products[id].stock >= (IF id = 1 THEN MaxStock ELSE 1) - Sold(id))
  /\ [][SecondOfDoubleClick /\ AddRecordDone
          => /\ transactions' = transactions
             /\ products' = products
             /\ cart' = cart
             /\ toast' = "Gagal memproses pembayaran"
             /\ \A i \in 1..Len(commits') : commits'[i].phase = "stock"
                  => commits'[i] \in {commits[j] : j \in 1..Len(commits)}]_vars

\* C21 witness: the second click was rejected while the first checkout, whose
\* transaction is recorded, is still updating the stock.
C21_Witness ==
  /\ Cardinality(Recorded) = 1
  /\ Len(commits) = 1
  /\ commits[1].phase = "stock"
  /\ toast = "Gagal memproses pembayaran"
  /\ cart # <<>>

\* Line k of checkout i has read its product and not yet written it, and the
\* stored record is no longer the one read: a write landed in between.
Raced(i, k) ==
  LET l == commits[i].lines[k] IN
  /\ l.st = "put"
  /\ l.id \in DOMAIN products
  /\ products[l.id] # [l.rec[1] EXCEPT !.stock = @ + l.quantity]

\* C22 as claimed: when a write to the product landed between the read and the
\* write of a stock update, the stock after the write is not the stock at the
\* click less the checkout's quantity.
C22_RacedStockIsOff ==
  [][\A i \in 1..Len(commits) : \A k \in 1..Len(commits[i].lines) :
       Raced(i, k) /\ UpdateRecordDoneAt(i, k)
         => LET id == commits[i].lines[k].id IN
            products'[id].stock
              # commits[i].pre.products[id].stock - commits[i].lines[k].quantity]_vars

\* C22: a stock update reads the product record, and writes back the whole
\* record it read with the stock reduced by the line's quantity, whatever the
\* store holds by then: a form save of the product that landed in between is
\* undone in every field, and the stock ends as the stock read less the quantity.
C22_StaleWriteWins ==
  [][\A i \in 1..Len(commits) : \A k \in 1..Len(commits[i].lines) :
       LET l == commits[i].lines[k] IN
       /\ (l.st = "get" /\ i <= Len(commits') /\ k <= Len(commits'[i].lines)
             /\ commits'[i].lines[k].st = "put")
            => commits'[i].lines[k].rec
                 = <<[products[l.id] EXCEPT !.stock = @ - l.quantity]>>
       /\ (l.st = "put" /\ UpdateRecordDoneAt(i, k))
            => /\ products'[l.id] = l.rec[1]
               /\ \A id \in DOMAIN products \ {l.id} :
                    id \in DOMAIN products' /\ products'[id] = products[id]]_vars

\* C22 witness: a product form was saved after the click of a checkout that is
\* still outstanding, and a stock update of the checkout has been written since:
\* the product is as it was at the click, with the stock reduced.
C22_Witness ==
  \E i \in 1..Len(commits) : \E k \in 1..Len(commits[i].lines) :
    LET l == commits[i].lines[k] IN
    /\ l.st = "done"
    /\ ~commits[i].solo
    /\ toast = "Gagal memperbarui produk"
    /\ products[l.id] = [commits[i].pre.products[l.id] EXCEPT !.stock = @ - l.quantity]

\* A load of the dashboard has run to its end: what it requested has arrived
\* and is shown.
DashboardLoaded ==
  /\ dashboard.pending = {}
  /\ dashboard.pendingFmt = <<>>
  /\ dashboard.total_products # <<>>

\* C23: once the dashboard is loaded, popular-products shows the ranking: the
\* quantities sold summed per product id over all transactions, the at most five
\* ids with the largest sums in descending order, each with the name of its
\* current product record, ids without a record left out.
C23_DashboardShowsRanking ==
  DashboardLoaded => dashboard.popular = loadPopularProducts(transactions, products)

\* C24: the fetch handler is cache-first. A GET request whose URL a cache holds
\* is answered with the cached response and no network fetch is started;
\* otherwise the network's answer is delivered as it came, and it is written (to
\* the cache CACHE_NAME, under the request's URL) only if it has status 200 and
\* type basic. A request of another method is answered by the browser, is never
\* handed to the handler's cache lookup and writes nothing to a cache.
C24_CacheFirst ==
  /\ [](\A i \in 1..Len(inflight) : inflight[i].method = "GET")
  /\ [][/\ \A i \in 1..Len(inflight) :
             /\ (CacheMatchedAt(i) /\ CachesMatch(caches, inflight[i].url) # <<>>)
                  => /\ served' = [method |-> "GET", url |-> inflight[i].url,
                                   response |-> CachesMatch(caches, inflight[i].url),
                                   from |-> "cache"]
                     /\ \A j \in 1..Len(inflight') : inflight'[j].stage # "match"
                          => inflight'[j] \in {inflight[k] : k \in 1..Len(inflight)}
             /\ (CacheMatchedAt(i) /\ CachesMatch(caches, inflight[i].url) = <<>>)
                  => served' = served /\ inflight'[i].stage = "fetch"
             /\ FetchDoneAt(i)
                  => /\ served'.from = "network"
                     /\ served'.url = inflight[i].url
                     /\ served'.response \in NetworkResults(inflight[i].url)
        /\ (served' # served /\ served'.method # "GET")
             => served'.from = "browser" /\ caches' = caches
        /\ worker.state = "activated"
             => \A name \in DOMAIN caches' : \A url \in DOMAIN caches'[name] :
                  (name \notin DOMAIN caches \/ url \notin DOMAIN caches[name]
                     \/ caches[name][url] # caches'[name][url])
                    => /\ name = CACHE_NAME
                       /\ caches'[name][url].status = 200
                       /\ caches'[name][url].type = "basic"
                       /\ \E i \in 1..Len(inflight) :
                            /\ inflight[i].method = "GET"
                            /\ inflight[i].url = url
                            /\ inflight[i].response = <<caches'[name][url]>>]_vars

\* C24 witness: a GET request of a URL that is not an asset was answered from the
\* cache, where an earlier network answer to the same URL had been written.
C24_Witness ==
  /\ served.from = "cache"
  /\ served.method = "GET"
  /\ served.url = "/manifest.json"
  /\ CACHE_NAME \in DOMAIN caches
  /\ served.response = <<caches[CACHE_NAME]["/manifest.json"]>>

\* C25: when the activate step completes, no cache with a name other than
\* CACHE_NAME is left, and from the start of the step to its end the cache
\* CACHE_NAME, when present, stays and keeps its content.
C25_ActivatePurges ==
  [][/\ (worker.state = "activating" /\ worker'.state = "activated")
          => DOMAIN caches' \subseteq {CACHE_NAME}
     /\ (worker.state \in {"installed", "activating"} /\ CACHE_NAME \in DOMAIN caches)
          => /\ CACHE_NAME \in DOMAIN caches'
             /\ caches'[CACHE_NAME] = caches[CACHE_NAME]]_vars

\* C25 witness: the worker is active, its activation deleted the cache of the
\* earlier version, and the cache CACHE_NAME holds the assets.
C25_Witness ==
  /\ worker.state = "activated"
  /\ worker.deleted = OldCacheNames
  /\ DOMAIN caches = {CACHE_NAME}
  /\ ASSETS_TO_CACHE \subseteq DOMAIN caches[CACHE_NAME]

\* C26: initApp runs to its end without entering its catch: after it the failure
\* toast does not show and current-invoice holds a generated invoice number, so
\* that every checkout reads a generated number.
C26_InitAppCompletes ==
  /\ [](\A i \in 1..Len(commits) : commits[i].txn.invoice # <<>>)
  /\ [][ReloadPage => /\ toast' # "Gagal memuat aplikasi"
                      /\ dom'.current_invoice = generateInvoiceNumber(clock)]_vars

\* C27: saveProduct's report matches the storage outcome: a save that changed the
\* stored product shows no failure message, and it reloads the cashier listing
\* from the store, so that addToCart is checked against the stored stock.
C27_SaveReportMatchesStorage ==
  [][products' # products =>
       /\ toast' \notin {"Gagal memperbarui produk", "Gagal menambahkan produk"}
       /\ cashier' = loadCashierProducts(products')]_vars

\* C28: restoreData always reaches an outcome: once the chosen file is read, the
\* success or the failure of the restore is eventually reported to the user; a
\* file that is not JSON leaves every store as it was.
C28_RestoreReports ==
  /\ (backup.stage = "reading") ~> (backup.stage \in {"restored", "failed"})
  /\ [][backup.stage = "reading" /\ ~JsonParses(backup.file) => UNCHANGED dbVars]_vars

\* The product ids of the cart's lines, in the cart's order.
CartIds(c) == [i \in 1..Len(c) |-> c[i].id]

\* The lines of c whose product is also in d, in the order of c.
CommonIds(c, d) ==
  LET InOther(id) == \E j \in 1..Len(d) : d[j].id = id
  IN  SelectSeq(CartIds(c), InOther)

\* C29: the cart holds at most one line per product id in every reachable state,
\* and no handler changes the relative order of the lines it leaves in the cart:
\* a line that is added goes to the end.
C29_OneLinePerProduct ==
  /\ [](\A i, j \in 1..Len(cart) : cart[i].id = cart[j].id => i = j)
  /\ [][/\ CommonIds(cart, cart') = CommonIds(cart', cart)
        /\ Len(cart') > Len(cart) =>
              CartIds(SubSeq(cart', 1, Len(cart))) = CartIds(cart)]_vars

\* Both products are in the cart, in the order they were added, and the first
\* was then added again: its line's quantity went up.
C29_Witness ==
  /\ Len(cart) = 2
  /\ cart[1].quantity >= 2
  /\ cart[1].id # cart[2].id

\* The function a click on a row button is meant for.
RowAction(t) ==
  IF t.button = "btn-delete"
  THEN (IF t.page = "products" THEN "deleteProduct" ELSE "deleteSupplier")
  ELSE (IF t.page = "products" THEN "showProductForm" ELSE "showSupplierForm")

\* C30: a click on a row's delete button calls deleteProduct or deleteSupplier
\* with the row's id, and a click on its edit button calls showProductForm or
\* showSupplierForm with it; no click raises an error or makes another call.
C30_RowClickDispatches ==
  [][click' # click =>
       /\ ~click'.error
       /\ click'.calls = <<[fn |-> RowAction(click'.target), id |-> click'.target.id]>>]_vars

====
